---------------------------- MODULE Spec2Model ----------------------------
(***************************************************************************)
(* Peer wire protocol of pico-torrent: the P2PConnection (handshake,       *)
(* receive, send), the message stream, the TorrentPeerConnection session   *)
(* loop, the PiecesManager availability map and the Piece block model;     *)
(* the trackers, the bencode codec and the metainfo parser; the messages'  *)
(* encode and decode, the PiecesManager under concurrent callers and       *)
(* map_files_to_pieces.                                                    *)
(*                                                                         *)
(* Bytes are sequences of 0..255.  The remote peer is the environment: it  *)
(* appends bytes to `wire`, closes or resets the link.  A socket read      *)
(* returns any non-empty prefix of what has arrived (TCP segmentation);    *)
(* the prefix lengths of one handler run are its `plan`.                   *)
(***************************************************************************)
EXTENDS Integers, Sequences, FiniteSets, TLC

(***************************************************************************)
(* Bounds of the model.                                                    *)
(***************************************************************************)
\* frames the remote peer sends after its handshake reply
MaxFrames == 3
\* calls a client makes on one P2PConnection
MaxCalls == 4
\* coordinator calls in the availability specification
MaxOps == 3
\* calls made on one Piece
MaxPieceOps == 5
\* calls of encode, of decode and of from_torrent_file
MaxCodecCalls == 2
\* calls of TrackersManager.get_remote_peers
MaxManagerCalls == 2
\* calls of TorrentTracker.get_available_peers by its owner
MaxAnnounces == 4
\* the latest time of the clock, in seconds
MaxNow == 3

\* map_files_to_pieces: the files of a torrent, their lengths and the piece
\* length
MaxFiles == 3
MaxFileLength == 5
MaxPieceLength == 4

(***************************************************************************)
(* Program constants.                                                      *)
(***************************************************************************)
\* tries < 10 in the read loops of handshake() and receive()
MaxTries == 10
\* BYTE_LENGTH of BitField.__init__
BYTE_LENGTH == 8
\* struct format '>B19s8x20s20s': 1 + 19 + 8 + 20 + 20 bytes
HandshakeStructSize == 68

Min(a, b) == IF a < b THEN a ELSE b

Drop(s, k) == SubSeq(s, k + 1, Len(s))

Take(s, k) == SubSeq(s, 1, Min(k, Len(s)))

\* python slice s[a:b] (0-based, clipped)
Slice(s, a, b) == SubSeq(s, Min(a, Len(s)) + 1, Min(b, Len(s)))

Rep(b, n) == [i \in 1..n |-> b]

(***************************************************************************)
(* struct.pack / struct.unpack                                             *)
(***************************************************************************)
\* struct.pack('>I', n)
PackU32(n) ==
    << (n \div 16777216) % 256, (n \div 65536) % 256, (n \div 256) % 256, n % 256 >>

\* struct.unpack('>I', b) for a 4-byte b
UnpackU32(b) == b[1] * 16777216 + b[2] * 65536 + b[3] * 256 + b[4]

\* struct.pack('20s', s): truncated or zero-padded to 20 bytes
Pack20s(s) == [i \in 1..20 |-> IF i <= Len(s) THEN s[i] ELSE 0]

\* b'BitTorrent protocol'
Pstr ==
    << 66, 105, 116, 84, 111, 114, 114, 101, 110, 116, 32,
       112, 114, 111, 116, 111, 99, 111, 108 >>

(***************************************************************************)
(* PeerMessageId                                                           *)
(***************************************************************************)
Choke == 0
Unchoke == 1
Interested == 2
NotInterested == 3
Have == 4
BitField == 5
Request == 6
Piece == 7
Cancel == 8
Port == 9
KeepAlive == -1
Handshake == -2

\* PeerMessageId(value) raises ValueError outside the enum
IsPeerMessageId(v) == v \in 0..9 \/ v = KeepAlive \/ v = Handshake

(***************************************************************************)
(* Messages: records with field id and the fields of the class.            *)
(***************************************************************************)
MkHandshake(info_hash, peer_id) ==
    [id |-> Handshake, info_hash |-> info_hash, peer_id |-> peer_id]

MkPlain(id) == [id |-> id]

MkHave(i) == [id |-> Have, piece_index |-> i]

\* BitField.__init__: bin(byte)[2:] right-aligned in 8 bits, most
\* significant bit first
BitsOfByte(byte) ==
    [k \in 1..BYTE_LENGTH |-> (byte \div (2 ^ (BYTE_LENGTH - k))) % 2 = 1]

RECURSIVE BitFieldLookup(_)
BitFieldLookup(raw) ==
    IF raw = << >> THEN << >>
    ELSE BitsOfByte(Head(raw)) \o BitFieldLookup(Tail(raw))

MkBitField(raw) ==
    [id |-> BitField, raw_bitfield |-> raw, bit_field_lookup |-> BitFieldLookup(raw)]

MkRequest(index, begin, length) ==
    [id |-> Request, index |-> index, begin |-> begin, length |-> length]

MkCancel(index, begin, length) ==
    [id |-> Cancel, index |-> index, begin |-> begin, length |-> length]

MkPiece(index, begin, block) ==
    [id |-> Piece, index |-> index, begin |-> begin, block |-> block]

MkPort(listen_port) == [id |-> Port, listen_port |-> listen_port]

\* <Class>.encode()
Encode(m) ==
    CASE m.id = Handshake ->
            <<19>> \o Pstr \o Rep(0, 8) \o Pack20s(m.info_hash) \o Pack20s(m.peer_id)
      [] m.id = KeepAlive -> PackU32(0)
      [] m.id \in {Choke, Unchoke, Interested, NotInterested} ->
            PackU32(1) \o <<m.id>>
      [] m.id = Have -> PackU32(5) \o <<m.id>> \o PackU32(m.piece_index)
      [] m.id = BitField ->
            PackU32(Len(m.raw_bitfield) + 1) \o <<m.id>> \o m.raw_bitfield
      [] m.id \in {Request, Cancel} ->
            PackU32(13) \o <<m.id>> \o PackU32(m.index) \o PackU32(m.begin)
                \o PackU32(m.length)
      [] m.id = Piece ->
            PackU32(9 + Len(m.block)) \o <<m.id>> \o PackU32(m.index)
                \o PackU32(m.begin) \o m.block
      [] m.id = Port -> PackU32(3) \o <<m.id>> \o PackU32(m.listen_port)

(***************************************************************************)
(* RawPeerMessage.from_bytes.  exc = "none" when a raw message is returned.*)
(***************************************************************************)
Raw(length, message_id, payload) ==
    [exc |-> "none", length |-> length, message_id |-> message_id, payload |-> payload]

Raise(exc) == [exc |-> exc]

FromBytes(raw_payload) ==
    IF Len(raw_payload) = HandshakeStructSize /\ SubSeq(raw_payload, 2, 20) = Pstr
    THEN Raw(19, Handshake, raw_payload)
    ELSE IF Len(raw_payload) < 4 THEN Raise("struct.error")
    ELSE LET length == UnpackU32(raw_payload) IN
         IF length = 0 THEN Raw(0, KeepAlive, << >>)
         ELSE IF Len(raw_payload) < 5 THEN Raise("struct.error")
         ELSE IF ~IsPeerMessageId(raw_payload[5]) THEN Raise("ValueError")
         ELSE Raw(length, raw_payload[5], Slice(raw_payload, 5, 5 + length))

(***************************************************************************)
(* <Class>.decode_from_raw(raw_message), for the class with id cls.        *)
(* The result is [exc |-> "none", msg |-> m] or [exc |-> e].               *)
(***************************************************************************)
Ok(m) == [exc |-> "none", msg |-> m]

DecodeFromRaw(cls, raw) ==
    IF cls # raw.message_id THEN Raise("ValueError")
    ELSE LET p == raw.payload IN
      CASE cls = Handshake ->
              IF Len(p) # HandshakeStructSize THEN Raise("struct.error")
              ELSE Ok(MkHandshake(SubSeq(p, 29, 48), SubSeq(p, 49, 68)))
        [] cls \in {KeepAlive, Choke, Unchoke, Interested, NotInterested} ->
              Ok(MkPlain(cls))
        [] cls = Have ->
              IF Len(p) # 4 THEN Raise("struct.error")
              ELSE Ok(MkHave(UnpackU32(p)))
        [] cls = BitField ->
              IF Len(p) # raw.length - 1 THEN Raise("struct.error")
              ELSE Ok(MkBitField(p))
        [] cls = Request ->
              IF Len(p) # 12 THEN Raise("struct.error")
              ELSE Ok(MkRequest(UnpackU32(SubSeq(p, 1, 4)), UnpackU32(SubSeq(p, 5, 8)),
                                UnpackU32(SubSeq(p, 9, 12))))
        [] cls = Cancel ->
              IF Len(p) # 12 THEN Raise("struct.error")
              ELSE Ok(MkCancel(UnpackU32(SubSeq(p, 1, 4)), UnpackU32(SubSeq(p, 5, 8)),
                               UnpackU32(SubSeq(p, 9, 12))))
        [] cls = Piece ->
              IF Len(p) < 8 \/ raw.length < 9 \/ Len(p) - 8 # raw.length - 9
              THEN Raise("struct.error")
              ELSE Ok(MkPiece(UnpackU32(SubSeq(p, 1, 4)), UnpackU32(SubSeq(p, 5, 8)),
                              Drop(p, 8)))
        [] cls = Port ->
              IF Len(p) # 4 THEN Raise("struct.error")
              ELSE Ok(MkPort(UnpackU32(p)))


(***************************************************************************)
(* State.                                                                  *)
(***************************************************************************)
VARIABLES
    sock,               \* P2PConnection.conn: "new", "connected" or "closed"
    link,               \* the remote end: "open", "eof" (closed) or "reset"
    wire,               \* bytes the remote peer sent and no read returned yet
    nPeerSent,          \* byte strings the remote peer has sent
    sent,               \* the byte strings passed to conn.sendall, in order
    handshaked,         \* P2PConnection.handshaked
    ncalls,             \* calls made by the client of the P2PConnection
    last,               \* the last call: its name, outcome and what it touched
    hsCount,            \* handshake() calls that returned
    msgsRead,           \* messages returned by receive()
    stream,             \* a P2PReadMessageStream exists over the connection
    pc,                 \* position of TorrentPeerConnection.communicate
    this_peer_state,    \* TorrentPeerConnection.this_peer_state
    remote_peer_state,  \* TorrentPeerConnection.remote_peer_state
    raised,             \* the exception communicate() let through, or "none"
    nproc,              \* frames the read loop of _communicate has handled
    lastFrame,          \* the frame handled last by the read loop
    peers,              \* PiecesManager.peers: peer -> PieceLookup.lookup
    nops,               \* coordinator calls made
    lastOp,             \* the last coordinator call
    blocks,             \* Piece.blocks: the PieceBlocks in dict order
    owner,              \* offset -> the peer the block was last handed out for
    verified,           \* the piece was found complete with a matching hash
    pnops,              \* calls made on the piece
    lastP,              \* the last call on the piece
    trackers,           \* TrackersManager.trackers: (tracker, last_visited)
    now,                \* the clock read by datetime.datetime.now()
    lastG,              \* the last get_remote_peers or get_available_peers call
    answers,            \* what the trackers may answer to requests.get
    enc,                \* one BencodeEncoder: its _buffer and the position in it
    lastB,              \* the last call of the codec, of from_torrent_file, of a
                        \* message's encode and decode, or of map_files_to_pieces
    tasks,              \* concurrent callers of one PiecesManager: their call
                        \* and their position in it
    heap,               \* the PieceLookup objects made so far: their lookup
    refs,               \* PiecesManager.peers as references: peer -> object
    started             \* the availability map before the concurrent calls

connVars == << sock, link, wire, nPeerSent, sent, handshaked >>

cliVars == << ncalls, last, hsCount, msgsRead, stream >>

sessVars == << pc, this_peer_state, remote_peer_state, raised, nproc, lastFrame >>

mgrVars == << peers, nops, lastOp >>

pieceVars == << blocks, owner, verified, pnops, lastP >>

trkVars == << trackers, now, lastG, answers >>

benVars == << enc, lastB >>

raceVars == << tasks, heap, refs, started >>

vars == << sock, link, wire, nPeerSent, sent, handshaked, ncalls, last, hsCount,
           msgsRead, stream, pc, this_peer_state, remote_peer_state, raised,
           nproc, lastFrame, peers, nops, lastOp,
           blocks, owner, verified, pnops, lastP,
           trackers, now, lastG, answers, enc, lastB,
           tasks, heap, refs, started >>

(***************************************************************************)
(* Inputs.                                                                 *)
(***************************************************************************)
\* two info-hashes and a peer-id, 20 bytes each
H1 == Rep(97, 20)

H2 == Rep(98, 20)

PeerId == [i \in 1..20 |-> 48 + ((i - 1) % 10)]

RemoteId == Rep(120, 20)

\* the torrent this client downloads
TorrentInfoHash == H1

\* the remote endpoint of the session and another endpoint
P1 == "peer1"

P2 == "peer2"

None == [id |-> -100]

\* how the reads of one handler run are cut: read k returns at most
\* plan[k] bytes, reads after the plan return all that is asked and there
Plans == { << >>, << 1 >>, << 2, 1 >>, << 20 >> }

(***************************************************************************)
(* socket.recv inside the read loops                                       *)
(***************************************************************************)
RecvLen(w, plan, n) ==
    IF plan = << >> THEN Min(n, Len(w)) ELSE Min(Min(n, Head(plan)), Len(w))

PlanTail(plan) == IF plan = << >> THEN plan ELSE Tail(plan)

ReadResult(st, exc, msg, w, plan) ==
    [st |-> st, exc |-> exc, msg |-> msg, wire |-> w, plan |-> plan]

\* while len(msg) < n and tries < 10: msg = self.conn.recv(n); tries += 1
RECURSIVE TryRead(_, _, _, _, _)
TryRead(w, plan, msg, tries, n) ==
    IF Len(msg) < n /\ tries < MaxTries
    THEN IF w = << >>
         THEN CASE link = "eof" -> TryRead(w, plan, << >>, tries + 1, n)
                [] link = "reset" ->
                     ReadResult("exc", "ConnectionResetError", << >>, w, plan)
                [] OTHER -> ReadResult("block", "none", msg, w, plan)
         ELSE LET k == RecvLen(w, plan, n) IN
              TryRead(Drop(w, k), PlanTail(plan), Take(w, k), tries + 1, n)
    ELSE ReadResult("ok", "none", msg, w, plan)

\* while len(body) < length: body += self.conn.recv(length - len(body))
RECURSIVE BodyRead(_, _, _, _)
BodyRead(w, plan, body, length) ==
    IF Len(body) < length
    THEN IF w = << >>
         THEN CASE link = "eof" -> ReadResult("hang", "none", body, w, plan)
                [] link = "reset" ->
                     ReadResult("exc", "ConnectionResetError", body, w, plan)
                [] OTHER -> ReadResult("block", "none", body, w, plan)
         ELSE LET k == RecvLen(w, plan, length - Len(body)) IN
              BodyRead(Drop(w, k), PlanTail(plan), body \o Take(w, k), length)
    ELSE ReadResult("ok", "none", body, w, plan)

(***************************************************************************)
(* P2PConnection.  A call's outcome: st is "ret" (returned), "exc"         *)
(* (raised exc), "block" (waits for bytes that have not arrived) or "hang" *)
(* (loops forever); with the connection's state after it.                  *)
(***************************************************************************)
Outcome(st, exc, ret, w, s, h) ==
    [st |-> st, exc |-> exc, ret |-> ret, wire |-> w, sent |-> s, handshaked |-> h]

\* Handshake.message_length
Handshake_message_length == 68

\* P2PConnection.send: conn.sendall(message.encode())
SendExc ==
    CASE sock # "connected" -> "OSError"
      [] link = "reset" -> "ConnectionResetError"
      [] OTHER -> "none"

HandshakeRefused_Never == FALSE

\* the check at the head of handshake()
HandshakeRefused == handshaked

\* the comparison of the two info-hashes in handshake()
InfoHashMismatch(peer_handshake, handshake) ==
    peer_handshake.info_hash # handshake.info_hash

HandshakeCall(handshake, plan) ==
    IF HandshakeRefused
    THEN Outcome("exc", "ProtocolError", None, wire, sent, handshaked)
    ELSE IF SendExc # "none"
    THEN Outcome("exc", SendExc, None, wire, sent, handshaked)
    ELSE
      LET s == Append(sent, Encode(handshake))
          r == TryRead(wire, plan, << >>, 0, Handshake_message_length)
      IN  IF r.st # "ok" THEN Outcome(r.st, r.exc, None, r.wire, s, handshaked)
          ELSE
            LET raw == FromBytes(r.msg) IN
            IF raw.exc # "none" THEN Outcome("exc", raw.exc, None, r.wire, s, handshaked)
            ELSE
              LET d == DecodeFromRaw(Handshake, raw) IN
              IF d.exc # "none" THEN Outcome("exc", d.exc, None, r.wire, s, handshaked)
              ELSE IF InfoHashMismatch(d.msg, handshake)
              THEN Outcome("exc", "ProtocolError", None, r.wire, s, handshaked)
              ELSE Outcome("ret", "none", d.msg, r.wire, s, TRUE)

ReceiveRefused_Never == FALSE

\* the check at the head of receive()
ReceiveRefused == ~handshaked

ReceiveCall(plan) ==
    IF ReceiveRefused
    THEN Outcome("exc", "ProtocolError", None, wire, sent, handshaked)
    ELSE IF sock # "connected"
    THEN Outcome("exc", "OSError", None, wire, sent, handshaked)
    ELSE
      LET r == TryRead(wire, plan, << >>, 0, 4) IN
      IF r.st # "ok" THEN Outcome(r.st, r.exc, None, r.wire, sent, handshaked)
      ELSE IF Len(r.msg) # 4
      THEN Outcome("exc", "ProtocolError", None, r.wire, sent, handshaked)
      ELSE
        LET b == BodyRead(r.wire, r.plan, << >>, UnpackU32(r.msg)) IN
        IF b.st # "ok" THEN Outcome(b.st, b.exc, None, b.wire, sent, handshaked)
        ELSE
          LET raw == FromBytes(r.msg \o b.msg) IN
          IF raw.exc # "none"
          THEN Outcome("exc", raw.exc, None, b.wire, sent, handshaked)
          ELSE
            LET d == DecodeFromRaw(raw.message_id, raw) IN
            IF d.exc # "none"
            THEN Outcome("exc", d.exc, None, b.wire, sent, handshaked)
            ELSE Outcome("ret", "none", d.msg, b.wire, sent, handshaked)

\* P2PReadMessageStream.__init__ refuses a connection that is not handshaked
StreamRefused == ~handshaked

\* P2PReadMessageStream.__next__: every exception of receive() ends the
\* stream (StopIteration)
StreamNext(plan) ==
    LET o == ReceiveCall(plan) IN
    IF o.st = "exc" THEN [o EXCEPT !.exc = "StopIteration"] ELSE o

(***************************************************************************)
(* The remote peer.                                                        *)
(***************************************************************************)
\* what arrives in answer to the handshake
HandshakeReplies ==
    { Encode(MkHandshake(H1, RemoteId)),            \* the same info-hash
      Encode(MkHandshake(H2, RemoteId)),            \* another info-hash
      <<19>> \o Rep(66, 19) \o Rep(0, 8) \o H1 \o RemoteId,  \* another protocol
      Encode(MkPlain(Choke)) }                      \* no handshake at all

\* frames of every kind, malformed ones, and the first bytes of frames the
\* peer did not finish sending
PeerFrames ==
    { Encode(MkPlain(Choke)), Encode(MkPlain(Unchoke)),
      Encode(MkPlain(Interested)), Encode(MkPlain(NotInterested)),
      Encode(MkPlain(KeepAlive)),
      Encode(MkHave(1)), Encode(MkHave(9)),
      Encode(MkBitField(<<129>>)), Encode(MkBitField(<<64>>)),
      Encode(MkRequest(0, 0, 16384)), Encode(MkCancel(0, 0, 16384)),
      Encode(MkPiece(0, 0, <<1, 2>>)),
      PackU32(3) \o <<Port, 26, 225>>,              \* Port with a uint16
      PackU32(1) \o <<10>>,                         \* unknown id
      PackU32(2) \o <<Have, 1>>,                    \* Have with a short payload
      Take(Encode(MkHave(1)), 6),                   \* a frame cut in its body
      << 0, 0 >> }                                  \* a frame cut in its length

PeerSend ==
    /\ link = "open"
    /\ sock = "connected"
    /\ wire = << >>
    /\ nPeerSent <= MaxFrames
    /\ \E b \in (IF nPeerSent = 0 THEN HandshakeReplies ELSE PeerFrames) :
          wire' = b
    /\ nPeerSent' = nPeerSent + 1
    /\ UNCHANGED << sock, link, sent, handshaked >>
    /\ UNCHANGED << cliVars, sessVars, mgrVars >>
    /\ UNCHANGED pieceVars
    /\ UNCHANGED << trkVars, benVars, raceVars >>

PeerClose ==
    /\ link = "open"
    /\ sock = "connected"
    /\ link' = "eof"
    /\ UNCHANGED << sock, wire, nPeerSent, sent, handshaked >>
    /\ UNCHANGED << cliVars, sessVars, mgrVars >>
    /\ UNCHANGED pieceVars
    /\ UNCHANGED << trkVars, benVars, raceVars >>

PeerReset ==
    /\ link = "open"
    /\ sock = "connected"
    /\ link' = "reset"
    /\ wire' = << >>
    /\ UNCHANGED << sock, nPeerSent, sent, handshaked >>
    /\ UNCHANGED << cliVars, sessVars, mgrVars >>
    /\ UNCHANGED pieceVars
    /\ UNCHANGED << trkVars, benVars, raceVars >>

(***************************************************************************)
(* Piece and PieceBlock.  Piece.blocks is a dict keyed by offset; it is    *)
(* the sequence of its PieceBlocks in the dict's (insertion) order.        *)
(***************************************************************************)
\* BlockStatus
Missing == "Missing"

Pending == "Pending"

Retreived == "Retreived"

\* PieceBlock(piece_index, offset, length): data b'', status Missing
PieceBlock(piece_index, offset, length) ==
    [piece_index |-> piece_index, offset |-> offset, length |-> length,
     data |-> << >>, status |-> Missing]

\* d[block.offset] = block: a new key goes last, a known key keeps its place
DictPut(d, block) ==
    IF \E k \in 1..Len(d) : d[k].offset = block.offset
    THEN [k \in 1..Len(d) |-> IF d[k].offset = block.offset THEN block ELSE d[k]]
    ELSE Append(d, block)

\* Piece.__init__: {block.offset: block for block in blocks}
RECURSIVE BlocksDict(_, _)
BlocksDict(d, list) ==
    IF list = << >> THEN d ELSE BlocksDict(DictPut(d, Head(list)), Tail(list))

\* a stand-in for hashlib.sha1(content).digest(): a checksum of the bytes
\* and their positions
RECURSIVE Sha1From(_, _)
Sha1From(h, content) ==
    \* h is never negative: the test makes TLC compute h at every step
    IF content = << >> \/ h < 0 THEN h
    ELSE Sha1From((h * 31 + Head(content) + 1) % 65521, Tail(content))

Sha1(content) == Sha1From(7, content)

\* the piece of the model: its index, and the digest of the bytes 1, 2
ThePiece == [index |-> 1, hash |-> Sha1(<< 1, 2 >>)]

\* the block lists a Piece is built from: two blocks of one byte, in
\* either order, and a list naming an offset twice
BlockLists ==
    { << PieceBlock(ThePiece.index, 0, 1), PieceBlock(ThePiece.index, 1, 1) >>,
      << PieceBlock(ThePiece.index, 1, 1), PieceBlock(ThePiece.index, 0, 1) >>,
      << PieceBlock(ThePiece.index, 0, 1), PieceBlock(ThePiece.index, 1, 1),
         PieceBlock(ThePiece.index, 0, 1) >> }

Requestable_NotRetreived(block) == block.status # Retreived

\* the test of next_block_for_request on one block
Requestable(block) == block.status = Missing

\* Piece.next_block_for_request: the block returned (or None) and the
\* blocks after the call
next_block_for_request(bs) ==
    LET ks == { k \in 1..Len(bs) : Requestable(bs[k]) } IN
    IF ks = {} THEN [ret |-> None, blocks |-> bs]
    ELSE LET k == CHOOSE j \in ks : \A i \in ks : j <= i
             nb == [bs EXCEPT ![k].status = Pending]
         IN  [ret |-> nb[k], blocks |-> nb]

ResetBlock_KeepData(block) == [block EXCEPT !.status = Missing]

ResetBlock_KeepPending(block) ==
    IF block.status = Pending THEN block
    ELSE [block EXCEPT !.status = Missing, !.data = << >>]

\* the body of the loop of Piece.reset
ResetBlock(block) == [block EXCEPT !.status = Missing, !.data = << >>]

\* Piece.reset
reset(bs) == [k \in 1..Len(bs) |-> ResetBlock(bs[k])]

OffsetKnown_InRange(bs, offset) == \E k \in 1..Len(bs) : offset >= bs[k].offset

\* offset in self.blocks
OffsetKnown(bs, offset) == \E k \in 1..Len(bs) : bs[k].offset = offset

add_block_MarksMissing(bs, offset, data) ==
    [exc |-> "none",
     blocks |-> [k \in 1..Len(bs) |->
                   IF bs[k].offset = offset
                   THEN [bs[k] EXCEPT !.status = Missing, !.data = data]
                   ELSE bs[k]]]

\* Piece.add_block; self.blocks[offset] raises KeyError for a missing key
add_block(bs, offset, data) ==
    IF ~OffsetKnown(bs, offset) THEN [exc |-> "none", blocks |-> bs]
    ELSE IF \A k \in 1..Len(bs) : bs[k].offset # offset
    THEN [exc |-> "KeyError", blocks |-> bs]
    ELSE [exc |-> "none",
          blocks |-> [k \in 1..Len(bs) |->
                        IF bs[k].offset = offset
                        THEN [bs[k] EXCEPT !.status = Retreived, !.data = data]
                        ELSE bs[k]]]

\* Piece.is_complete
is_complete(bs) == \A k \in 1..Len(bs) : bs[k].status = Retreived

\* sorted(self.blocks.values(), key=lambda block: block.offset)
RECURSIVE SortedByOffset(_)
SortedByOffset(bs) ==
    IF bs = << >> THEN << >>
    ELSE LET k == CHOOSE j \in 1..Len(bs) :
                    \A i \in 1..Len(bs) : bs[j].offset <= bs[i].offset
         IN  << bs[k] >> \o SortedByOffset(SubSeq(bs, 1, k - 1) \o SubSeq(bs, k + 1, Len(bs)))

\* b''.join(block.data for block in ...)
RECURSIVE JoinData(_)
JoinData(bs) == IF bs = << >> THEN << >> ELSE Head(bs).data \o JoinData(Tail(bs))

\* Piece.content
content(bs) == JoinData(SortedByOffset(bs))

\* Piece.is_hash_matching
is_hash_matching(bs, hash) == Sha1(content(bs)) = hash

\* a call on the piece as `lastP` records it
PieceCall(op, peer, offset, data, exc, ret, ok) ==
    [op |-> op, peer |-> peer, offset |-> offset, data |-> data,
     pre |-> blocks, exc |-> exc, ret |-> ret, ok |-> ok]

NoOwner == [o \in {} |-> P1]

\* a Piece as its constructor leaves it, and no call made on it
InitPiece(list) ==
    /\ blocks = BlocksDict(<< >>, list)
    /\ owner = NoOwner
    /\ verified = FALSE
    /\ pnops = 0
    /\ lastP = [op |-> "none", peer |-> P1, offset |-> 0, data |-> << >>,
                pre |-> << >>, exc |-> "none", ret |-> None,
                ok |-> FALSE]

InitPieceIdle ==
    InitPiece(<< PieceBlock(ThePiece.index, 0, 1), PieceBlock(ThePiece.index, 1, 1) >>)

(***************************************************************************)
(* Bencoding.  A value is a record with its python type t and content v:   *)
(* an int, bytes, a list of values, or a dict as the sequence of its       *)
(* (key, value) pairs in insertion order.  A file or buffer is its bytes   *)
(* and the position of the next read or write.                             *)
(***************************************************************************)
\* the bytes the codec names: b'i', b'l', b'd', b'e', b':', b'0', b'9', and
\* '-', '+', '_' of int()
Ch == [i |-> 105, l |-> 108, d |-> 100, e |-> 101, colon |-> 58, zero |-> 48,
       nine |-> 57, minus |-> 45, plus |-> 43, under |-> 95]

BInt(n) == [t |-> "int", v |-> n]

BBytes(b) == [t |-> "bytes", v |-> b]

BList(items) == [t |-> "list", v |-> items]

BDict(pairs) == [t |-> "dict", v |-> pairs]

\* a value of a type the codec has no entry for
BStr(b) == [t |-> "str", v |-> b]

\* a == b for two keys of a dict
KeyEq(a, b) == a.t = b.t /\ a.v = b.v

\* dct[key] = value: a new key goes last, a known key keeps its place
DictSet(pairs, key, value) ==
    IF \E k \in 1..Len(pairs) : KeyEq(pairs[k][1], key)
    THEN [k \in 1..Len(pairs) |->
            IF KeyEq(pairs[k][1], key) THEN << pairs[k][1], value >> ELSE pairs[k]]
    ELSE Append(pairs, << key, value >>)

\* key in dct
DictHas(pairs, key) == \E k \in 1..Len(pairs) : KeyEq(pairs[k][1], key)

\* dct[key] for a key of dct
DictGet(pairs, key) ==
    pairs[CHOOSE k \in 1..Len(pairs) : KeyEq(pairs[k][1], key)][2]

\* io.BytesIO
NewBuffer == [data |-> << >>, pos |-> 0]

\* buffer.write(b): overwrites from the position on, extends at the end
Write(buf, b) ==
    [data |-> SubSeq(buf.data, 1, buf.pos) \o b \o Drop(buf.data, buf.pos + Len(b)),
     pos |-> buf.pos + Len(b)]

\* str(n).encode() for n >= 0
RECURSIVE Digits(_)
Digits(n) ==
    IF n < 10 THEN << Ch.zero + n >>
    ELSE Append(Digits(n \div 10), Ch.zero + (n % 10))

\* str(value).encode() of an int
IntToAscii(n) == IF n < 0 THEN << Ch.minus >> \o Digits(-n) ELSE Digits(n)

RECURSIVE EncodeFunc(_, _)
RECURSIVE EncodeItems(_, _)
RECURSIVE EncodePairs(_, _)
\* the loop of _encode_list
EncodeItems(buf, items) ==
    IF items = << >> THEN [exc |-> "none", buf |-> buf]
    ELSE LET r == EncodeFunc(buf, Head(items)) IN
         IF r.exc # "none" THEN r ELSE EncodeItems(r.buf, Tail(items))

\* value.items(): the pairs in insertion order
DictItems(pairs) == pairs

\* the loop of _encode_dict
EncodePairs(buf, pairs) ==
    IF pairs = << >> THEN [exc |-> "none", buf |-> buf]
    ELSE LET k == EncodeFunc(buf, Head(pairs)[1]) IN
         IF k.exc # "none" THEN k
         ELSE LET v == EncodeFunc(k.buf, Head(pairs)[2]) IN
              IF v.exc # "none" THEN v ELSE EncodePairs(v.buf, Tail(pairs))

\* self._encode_func[type(value)](value): _encode_int, _encode_bytes,
\* _encode_list, _encode_dict, or KeyError
EncodeFunc(buf, value) ==
    CASE value.t = "int" ->
            [exc |-> "none",
             buf |-> Write(Write(Write(buf, << Ch.i >>), IntToAscii(value.v)), << Ch.e >>)]
      [] value.t = "bytes" ->
            [exc |-> "none",
             buf |-> Write(Write(Write(buf, Digits(Len(value.v))), << Ch.colon >>), value.v)]
      [] value.t = "list" ->
            LET r == EncodeItems(Write(buf, << Ch.l >>), value.v) IN
            IF r.exc # "none" THEN r ELSE [r EXCEPT !.buf = Write(r.buf, << Ch.e >>)]
      [] value.t = "dict" ->
            LET r == EncodePairs(Write(buf, << Ch.d >>), DictItems(value.v)) IN
            IF r.exc # "none" THEN r ELSE [r EXCEPT !.buf = Write(r.buf, << Ch.e >>)]
      [] OTHER -> [exc |-> "KeyError", buf |-> buf]

\* BencodeEncoder.encode on an encoder whose buffer is buf: the exception
\* and the buffer after the call (returned when no exception)
BencodeEncoder_encode(buf, value) ==
    LET r == EncodeFunc(buf, value) IN
    IF r.exc # "none" THEN [exc |-> "BencodeEncodeError", buf |-> r.buf]
    ELSE [exc |-> "none", buf |-> [r.buf EXCEPT !.pos = 0]]

\* BencodeEncoder().encode(value).getvalue()
Bencode(value) == BencodeEncoder_encode(NewBuffer, value).buf.data

(***************************************************************************)
(* int(b, base=10) of python                                               *)
(***************************************************************************)
IsSpace(c) == c \in { 32, 9, 10, 11, 12, 13 }

IsDigit(c) == c \in Ch.zero..Ch.nine

RECURSIVE LStrip(_)
LStrip(b) == IF b # << >> /\ IsSpace(Head(b)) THEN LStrip(Tail(b)) ELSE b

RECURSIVE RStrip(_)
RStrip(b) ==
    IF b # << >> /\ IsSpace(b[Len(b)]) THEN RStrip(SubSeq(b, 1, Len(b) - 1)) ELSE b

\* digits, with single underscores between digits
DigitsOk(b) ==
    /\ b # << >>
    /\ \A k \in 1..Len(b) : IsDigit(b[k]) \/ b[k] = Ch.under
    /\ IsDigit(b[1])
    /\ IsDigit(b[Len(b)])
    /\ \A k \in 1..(Len(b) - 1) : ~(b[k] = Ch.under /\ b[k + 1] = Ch.under)

RECURSIVE DigitsValue(_, _)
DigitsValue(acc, b) ==
    IF b = << >> THEN acc
    ELSE IF Head(b) = Ch.under THEN DigitsValue(acc, Tail(b))
    ELSE DigitsValue(acc * 10 + (Head(b) - Ch.zero), Tail(b))

\* int(b, base=10): surrounding whitespace, a sign, leading zeros and
\* underscores are accepted
PyInt(b) ==
    LET s == RStrip(LStrip(b))
        signed == s # << >> /\ Head(s) \in { Ch.minus, Ch.plus }
        body == IF signed THEN Tail(s) ELSE s
    IN  IF ~DigitsOk(body) THEN [exc |-> "ValueError", v |-> 0]
        ELSE [exc |-> "none",
              v |-> IF signed /\ Head(s) = Ch.minus THEN 0 - DigitsValue(0, body)
                    ELSE DigitsValue(0, body)]

(***************************************************************************)
(* BencodeDecoder over the file `data`, pos bytes of which have been read. *)
(* A result: st is "ok" (val decoded, the file at pos), "exc" (exc raised) *)
(* or "hang" (the loop of _read_until does not end).                       *)
(***************************************************************************)
DecOk(val, pos) == [st |-> "ok", exc |-> "none", val |-> val, pos |-> pos]

DecExc(exc, pos) == [st |-> "exc", exc |-> exc, val |-> None, pos |-> pos]

DecHang(pos) == [st |-> "hang", exc |-> "none", val |-> None, pos |-> pos]

\* self._bencode_file.read(n)
FileRead(data, pos, n) ==
    [bytes |-> Slice(data, pos, pos + n), pos |-> Min(pos + n, Len(data))]

\* BencodeDecoder._read_until: at the end of the file read(1) gives b''
\* for ever and the loop does not end
ReadUntil(data, pos, sep) ==
    LET at == { k \in (pos + 1)..Len(data) : data[k] = sep } IN
    IF at = {} THEN [st |-> "hang", bytes |-> << >>, pos |-> Len(data)]
    ELSE LET k == CHOOSE j \in at : \A i \in at : j <= i IN
         [st |-> "ok", bytes |-> SubSeq(data, pos + 1, k - 1), pos |-> k]

\* BencodeDecoder._decode_int
DecodeInt(data, pos) ==
    LET r == ReadUntil(data, pos, Ch.e) IN
    IF r.st = "hang" THEN DecHang(r.pos)
    ELSE LET n == PyInt(r.bytes) IN
         IF n.exc # "none" THEN DecExc(n.exc, r.pos) ELSE DecOk(BInt(n.v), r.pos)

DecodeBytes_DropDtype(dtype, data, pos) ==
    LET r == ReadUntil(data, pos, Ch.colon) IN
    IF r.st = "hang" THEN DecHang(r.pos)
    ELSE LET n == PyInt(r.bytes) IN
         IF n.exc # "none" THEN DecExc(n.exc, r.pos)
         ELSE LET c == FileRead(data, r.pos, n.v) IN DecOk(BBytes(c.bytes), c.pos)

\* BencodeDecoder._decode_bytes
DecodeBytes(dtype, data, pos) ==
    LET r == ReadUntil(data, pos, Ch.colon) IN
    IF r.st = "hang" THEN DecHang(r.pos)
    ELSE LET n == PyInt(dtype \o r.bytes) IN
         IF n.exc # "none" THEN DecExc(n.exc, r.pos)
         ELSE LET c == FileRead(data, r.pos, n.v) IN DecOk(BBytes(c.bytes), c.pos)

\* hash(key) raises TypeError for a list and for a dict
Unhashable(key) == key.t \in { "list", "dict" }

RECURSIVE DecodeFunc(_, _, _)
RECURSIVE DecodeListLoop(_, _, _)
RECURSIVE DecodeDictLoop(_, _, _)
\* the loop of _decode_list, lst decoded so far
DecodeListLoop(lst, data, pos) ==
    LET dtype == FileRead(data, pos, 1) IN
    IF dtype.bytes = << Ch.e >> THEN DecOk(BList(lst), dtype.pos)
    ELSE LET r == DecodeFunc(dtype.bytes, data, dtype.pos) IN
         IF r.st # "ok" THEN r ELSE DecodeListLoop(Append(lst, r.val), data, r.pos)

\* the loop of _decode_dict, dct decoded so far
DecodeDictLoop(dct, data, pos) ==
    LET dtype == FileRead(data, pos, 1) IN
    IF dtype.bytes = << Ch.e >> THEN DecOk(BDict(dct), dtype.pos)
    ELSE LET key == DecodeFunc(dtype.bytes, data, dtype.pos) IN
         IF key.st # "ok" THEN key
         ELSE LET vtype == FileRead(data, key.pos, 1)
                  value == DecodeFunc(vtype.bytes, data, vtype.pos)
              IN  IF value.st # "ok" THEN value
                  ELSE IF Unhashable(key.val) THEN DecExc("TypeError", value.pos)
                  ELSE DecodeDictLoop(DictSet(dct, key.val, value.val), data, value.pos)

\* self._decode_func[dtype](dtype)
DecodeFunc(dtype, data, pos) ==
    CASE dtype = << Ch.i >> -> DecodeInt(data, pos)
      [] dtype = << Ch.l >> -> DecodeListLoop(<< >>, data, pos)
      [] dtype = << Ch.d >> -> DecodeDictLoop(<< >>, data, pos)
      [] Len(dtype) = 1 /\ IsDigit(dtype[1]) -> DecodeBytes(dtype, data, pos)
      [] OTHER -> DecExc("KeyError", pos)

\* BencodeDecoder(io.BytesIO(data)).decode()
BencodeDecoder_decode(data) ==
    LET dtype == FileRead(data, 0, 1)
        r == DecodeFunc(dtype.bytes, data, dtype.pos)
    IN  IF r.st = "exc" THEN DecExc("BencodeDecodeError", r.pos) ELSE r

\* no tracker is known and get_remote_peers was never called
InitTrkIdle ==
    /\ trackers = << >>
    /\ now = 0
    /\ lastG = [op |-> "none", n |-> 0, exc |-> "none"]
    /\ answers = << >>

\* an encoder just made, and no call of the codec
InitBenIdle ==
    /\ enc = NewBuffer
    /\ lastB = [op |-> "none", n |-> 0]

\* no caller runs a coordinator method concurrently
InitRaceIdle ==
    /\ tasks = << >>
    /\ heap = << >>
    /\ refs = << >>
    /\ started = << >>

(***************************************************************************)
(* TorrentFile.from_torrent_file.  Text (bytes.decode()) is kept as its    *)
(* bytes; the inputs are ASCII.                                            *)
(***************************************************************************)
\* the keys of a metainfo file, as bytes
Key ==
    [info |-> << 105, 110, 102, 111 >>,
     files |-> << 102, 105, 108, 101, 115 >>,
     path |-> << 112, 97, 116, 104 >>,
     length |-> << 108, 101, 110, 103, 116, 104 >>,
     name |-> << 110, 97, 109, 101 >>,
     pieces |-> << 112, 105, 101, 99, 101, 115 >>,
     piece_length |-> << 112, 105, 101, 99, 101, 32, 108, 101, 110, 103, 116, 104 >>,
     announce |-> << 97, 110, 110, 111, 117, 110, 99, 101 >>,
     announce_list |-> << 97, 110, 110, 111, 117, 110, 99, 101, 45, 108, 105, 115, 116 >>,
     comment |-> << 99, 111, 109, 109, 101, 110, 116 >>,
     created_by |-> << 99, 114, 101, 97, 116, 101, 100, 32, 98, 121 >>,
     creation_date |-> << 99, 114, 101, 97, 116, 105, 111, 110, 32, 100, 97, 116, 101 >>]

\* value[key] of python for a decoded value: KeyError for a dict without
\* the key, TypeError for a value that is not a dict
GetItem(value, key) ==
    IF value.t # "dict" THEN [exc |-> "TypeError", val |-> None]
    ELSE IF ~DictHas(value.v, BBytes(key)) THEN [exc |-> "KeyError", val |-> None]
    ELSE [exc |-> "none", val |-> DictGet(value.v, BBytes(key))]

\* the loop over pieces_bytes: a piece is closed after the byte at an
\* index that is not 0 and is a multiple of 20
RECURSIVE SplitPieces(_, _, _, _)
SplitPieces(pieces, piece, index, pieces_bytes) ==
    IF index = Len(pieces_bytes)
    THEN IF piece # << >> THEN Append(pieces, piece) ELSE pieces
    ELSE LET p == Append(piece, pieces_bytes[index + 1]) IN
         IF index # 0 /\ index % 20 = 0
         THEN SplitPieces(Append(pieces, p), << >>, index + 1, pieces_bytes)
         ELSE SplitPieces(pieces, p, index + 1, pieces_bytes)

\* '/'.join(item.decode() for item in path)
RECURSIVE JoinPath(_)
JoinPath(items) ==
    IF items = << >> THEN << >>
    ELSE IF Len(items) = 1 THEN items[1].v
    ELSE items[1].v \o << 47 >> \o JoinPath(Tail(items))

\* the TorrentInfoFile list of a files list
RECURSIVE InfoFiles(_)
InfoFiles(files) ==
    IF files = << >> THEN << >>
    ELSE << [path |-> JoinPath(GetItem(Head(files), Key.path).val.v),
             length |-> GetItem(Head(files), Key.length).val.v] >> \o InfoFiles(Tail(files))

\* the lookups f_dict[b'path'] and f_dict[b'length'] of every file
RECURSIVE FileLookups(_)
FileLookups(files) ==
    IF files = << >> THEN << >>
    ELSE << GetItem(Head(files), Key.path), GetItem(Head(files), Key.length) >>
            \o FileLookups(Tail(files))

\* item[0].decode() for every item of data[b'announce-list']
AnnounceList(data) ==
    IF ~DictHas(data.v, BBytes(Key.announce_list)) THEN << >>
    ELSE LET items == DictGet(data.v, BBytes(Key.announce_list)).v IN
         [k \in 1..Len(items) |-> items[k].v[1].v]

\* the first exception a sequence of lookups raises
FirstExc(lookups) ==
    IF \A k \in 1..Len(lookups) : lookups[k].exc = "none" THEN "none"
    ELSE lookups[CHOOSE k \in 1..Len(lookups) :
                    /\ lookups[k].exc # "none"
                    /\ \A j \in 1..(k - 1) : lookups[j].exc = "none"].exc

\* data.get(key, default)
DictGetOr(value, key, default) ==
    IF DictHas(value.v, BBytes(key)) THEN DictGet(value.v, BBytes(key)) ELSE default

\* the statements of from_torrent_file after the decoded data was found
\* to be a dict
TorrentOfData(data) ==
    LET info == GetItem(data, Key.info) IN
    IF info.exc # "none" THEN [exc |-> info.exc]
    ELSE IF info.val.t # "dict" THEN [exc |-> "TypeError"]
    ELSE
      LET multi == DictHas(info.val.v, BBytes(Key.files))
          name == GetItem(info.val, Key.name)
          length == GetItem(info.val, Key.length)
          pieces == GetItem(info.val, Key.pieces)
          piece_length == GetItem(info.val, Key.piece_length)
          announce == GetItem(data, Key.announce)
          e == FirstExc(IF multi
                        THEN FileLookups(GetItem(info.val, Key.files).val.v)
                             \o << pieces, name, piece_length, announce >>
                        ELSE << name, length, pieces, name, piece_length, announce >>)
      IN  IF e # "none" THEN [exc |-> e]
          ELSE [exc |-> "none",
                announce |-> announce.val.v,
                announce_list |-> AnnounceList(data),
                comment |-> DictGetOr(data, Key.comment, BBytes(<< >>)).v,
                created_by |-> DictGetOr(data, Key.created_by, BBytes(<< >>)).v,
                creation_date |-> DictGetOr(data, Key.creation_date, BInt(0)).v,
                info |-> [name |-> name.val.v,
                          pieces |-> SplitPieces(<< >>, << >>, 0, pieces.val.v),
                          piece_length |-> piece_length.val.v,
                          files |-> IF multi
                                    THEN InfoFiles(GetItem(info.val, Key.files).val.v)
                                    ELSE << [path |-> name.val.v,
                                             length |-> length.val.v] >>],
                info_hash |-> Sha1(Bencode(info.val))]

\* TorrentFile.from_torrent_file(io.BytesIO(file))
from_torrent_file(file) ==
    LET d == BencodeDecoder_decode(file) IN
    CASE d.st = "hang" -> [exc |-> "hang"]
      [] d.st = "exc" -> [exc |-> "BadTorrentFile"]
      [] d.val.t # "dict" -> [exc |-> "BadTorrentFile"]
      [] OTHER -> TorrentOfData(d.val)

(***************************************************************************)
(* TorrentTracker and TrackersManager.  An optional value is << >> for     *)
(* None and << v >> for v.  A tracker client is its interval and its       *)
(* tracker_id; nann and supplied are history: the announces it has made    *)
(* and the tracker id a response supplied last.                            *)
(***************************************************************************)
\* the keys of a tracker response, as bytes
TKey ==
    [faliure_reason |-> << 102, 97, 108, 105, 117, 114, 101, 32, 114, 101, 97, 115, 111, 110 >>,
     failure_reason |-> << 102, 97, 105, 108, 117, 114, 101, 32, 114, 101, 97, 115, 111, 110 >>,
     interval |-> << 105, 110, 116, 101, 114, 118, 97, 108 >>,
     tracker_id |-> << 116, 114, 97, 99, 107, 101, 114, 32, 105, 100 >>,
     peers |-> << 112, 101, 101, 114, 115 >>]

\* TorrentTracker.__init__
NewTracker == [interval |-> << >>, tracker_id |-> << >>, nann |-> 0, supplied |-> << >>]

\* the truth value of self.tracker_id: None and b'' are false
Truthy(opt) == opt # << >> /\ opt[1] # << >>

\* the parameters event and trackerid of the request url
RequestOf(tracker) ==
    [event |-> ~Truthy(tracker.tracker_id),
     trackerid |-> IF Truthy(tracker.tracker_id) THEN tracker.tracker_id ELSE << >>]

\* the TorrentPeer list of a compact peers string
RECURSIVE FetchedPeers(_)
FetchedPeers(raw_peers) ==
    IF raw_peers = << >> THEN << >>
    ELSE << [ip |-> SubSeq(raw_peers, 1, 4),
             port |-> raw_peers[5] * 256 + raw_peers[6]] >>
            \o FetchedPeers(Drop(raw_peers, 6))

\* what requests.get gives: the status and the body of the response; d
\* is what decoder.decode() gives for that body (tracker.py:79-84), kept
\* with the response so that it is computed once
Response(status, body) ==
    [status |-> status, content |-> body, d |-> BencodeDecoder_decode(body)]

\* the tracker id a response supplies, if it is a dict with one
SuppliedBy(response, before) ==
    IF /\ response.status = 200
       /\ response.d.st = "ok"
       /\ response.d.val.t = "dict"
       /\ DictHas(response.d.val.v, BBytes(TKey.tracker_id))
    THEN << DictGet(response.d.val.v, BBytes(TKey.tracker_id)).v >>
    ELSE before

\* TorrentTracker.get_available_peers with the response requests.get
\* gives: the exception ("hang" when decode does not end), the peers
\* returned and the tracker client after the call
get_available_peers(tracker, response) ==
    LET requested == [tracker EXCEPT !.nann = tracker.nann + 1,
                                     !.supplied = SuppliedBy(response, tracker.supplied)]
        d == response.d
        interval == GetItem(d.val, TKey.interval)
        tid == IF DictHas(d.val.v, BBytes(TKey.tracker_id))
               THEN << DictGet(d.val.v, BBytes(TKey.tracker_id)).v >>
               ELSE << >>
        raw_peers == GetItem(d.val, TKey.peers)
        updated == [requested EXCEPT !.interval = << interval.val.v >>, !.tracker_id = tid]
        exc == CASE response.status # 200 -> "BadTrackerResponse"
                 [] d.st = "hang" -> "hang"
                 [] d.st = "exc" -> "BadTrackerResponse"
                 [] d.val.t # "dict" -> "TypeError"
                 [] DictHas(d.val.v, BBytes(TKey.faliure_reason)) -> "Exception"
                 [] interval.exc # "none" -> interval.exc
                 [] raw_peers.exc # "none" -> raw_peers.exc
                 [] Len(raw_peers.val.v) % 6 # 0 -> "BadTrackerResponse"
                 [] OTHER -> "none"
        \* self.interval and self.tracker_id are assigned once the
        \* interval was found in the response
        assigned == /\ response.status = 200
                    /\ d.st = "ok"
                    /\ d.val.t = "dict"
                    /\ ~DictHas(d.val.v, BBytes(TKey.faliure_reason))
                    /\ interval.exc = "none"
    IN  [exc |-> exc,
         peers |-> IF exc = "none" THEN FetchedPeers(raw_peers.val.v) ELSE << >>,
         tracker |-> IF assigned THEN updated ELSE requested,
         request |-> RequestOf(tracker)]

\* tracker.interval or 0
IntervalOr0(tracker) == IF tracker.interval = << >> THEN 0 ELSE tracker.interval[1]

\* the test of get_remote_peers that skips a tracker
TooEarly(entry, t) ==
    /\ entry.last_visited # << >>
    /\ entry.last_visited[1] + IntervalOr0(entry.tracker) >= t

\* a run of get_remote_peers: the trackers, the indexes the loop reached,
\* the requests made, the peer lists fetched, the list all_avaliable_peers
\* and the exception that ended the loop
NewRun(trks) ==
    [trackers |-> trks, reached |-> << >>, requests |-> << >>, fetched |-> << >>,
     all_avaliable_peers |-> << >>, exc |-> "none"]

\* the run after tracker k was asked and get_available_peers gave r
Asked(run, k, r) ==
    [run EXCEPT !.reached = Append(@, k),
                !.requests = Append(@, [index |-> k, request |-> r.request]),
                !.trackers[k].tracker = r.tracker,
                !.exc = IF r.exc = "BadTrackerResponse" THEN "none" ELSE r.exc]

\* lines 47 and 50: the peers are added to their own list, not to
\* all_avaliable_peers, and the visit is recorded
Visited(run, k, r, t) ==
    [run EXCEPT !.fetched = Append(@, [index |-> k, returned |-> r.peers,
                                       extended |-> r.peers \o r.peers]),
                !.trackers[k].last_visited = << t >>]

\* one pass of the loop body of get_remote_peers, for tracker k at time t
LoopPass(run, k, t, response) ==
    IF TooEarly(run.trackers[k], t) THEN [run EXCEPT !.reached = Append(@, k)]
    ELSE IF get_available_peers(run.trackers[k].tracker, response).exc = "none"
    THEN Visited(Asked(run, k, get_available_peers(run.trackers[k].tracker, response)),
                 k, get_available_peers(run.trackers[k].tracker, response), t)
    ELSE Asked(run, k, get_available_peers(run.trackers[k].tracker, response))

\* the loop of get_remote_peers from index k on, responses[k] being what
\* tracker k answers; an exception other than BadTrackerResponse ends it
RECURSIVE RemotePeersLoop(_, _, _, _)
RemotePeersLoop(k, t, responses, run) ==
    IF k > Len(run.trackers) \/ run.exc # "none" THEN run
    ELSE RemotePeersLoop(k + 1, t, responses, LoopPass(run, k, t, responses[k]))

\* TrackersManager.get_remote_peers at time t
get_remote_peers(trks, t, responses) == RemotePeersLoop(1, t, responses, NewRun(trks))

\* the body of a response
Body(pairs) == Bencode(BDict(pairs))

Responses ==
    << Response(200, Body(<< << BBytes(TKey.interval), BInt(1) >>,
                             << BBytes(TKey.peers), BBytes(<< 10, 0, 0, 1, 26, 225 >>) >> >>)),
       Response(200, Body(<< << BBytes(TKey.interval), BInt(2) >>,
                             << BBytes(TKey.peers),
                                BBytes(<< 10, 0, 0, 2, 0, 80, 10, 0, 0, 3, 1, 0 >>) >>,
                             << BBytes(TKey.tracker_id), BBytes(<< 65 >>) >> >>)),
       Response(404, << 120 >>),
       Response(200, << 120 >>),
       Response(200, Body(<< << BBytes(TKey.failure_reason), BBytes(<< 110, 111 >>) >> >>)),
       Response(200, Body(<< << BBytes(TKey.interval), BInt(1) >> >>)),
       Response(200, Body(<< << BBytes(TKey.interval), BInt(3) >>,
                             << BBytes(TKey.peers),
                                BBytes(<< 10, 0, 0, 1, 26, 225, 7 >>) >> >>)),
       Response(200, Body(<< << BBytes(TKey.faliure_reason), BBytes(<< 110, 111 >>) >> >>)),
       Response(200, << 105, 49, 101 >>),
       Response(200, << 100, 56, 58, 105, 110, 116, 101, 114, 118, 97, 108, 105, 50 >>) >>

(***************************************************************************)
(* The codec and from_torrent_file under any calls: one BencodeEncoder     *)
(* that is kept and used again, decoders made per call.                    *)
(***************************************************************************)
\* values handed to encode
VSpam == BBytes(<< 115, 112, 97, 109 >>)

VLong == BBytes(<< 97, 98, 99, 100, 101, 102, 103, 104, 105, 106, 107, 108 >>)

VPairBA == BDict(<< << BBytes(<< 98 >>), BInt(1) >>, << BBytes(<< 97 >>), BInt(2) >> >>)

VPairAB == BDict(<< << BBytes(<< 97 >>), BInt(2) >>, << BBytes(<< 98 >>), BInt(1) >> >>)

VNested ==
    BDict(<< << BBytes(<< 120 >>), BList(<< BInt(-42), VSpam, BList(<< >>) >>) >>,
             << BBytes(<< >>), VPairBA >> >>)

EncodeInputs ==
    << BInt(0), BInt(-42), BInt(7), BInt(120), BBytes(<< >>), BBytes(<< 97 >>), VSpam,
       VLong, BList(<< >>), BList(<< BInt(1), BBytes(<< 97 >>) >>),
       BList(<< BList(<< BInt(0) >>) >>), BDict(<< >>), VPairBA, VPairAB, VNested,
       BStr(<< 120 >>), BList(<< BInt(1), BStr(<< 120 >>) >>),
       BDict(<< << BStr(<< 107 >>), BInt(1) >> >>) >>

\* a value built from integers, byte-strings, lists and dictionaries keyed
\* by byte-strings
RECURSIVE IsBValue(_)
IsBValue(value) ==
    CASE value.t \in { "int", "bytes" } -> TRUE
      [] value.t = "list" -> \A k \in 1..Len(value.v) : IsBValue(value.v[k])
      [] value.t = "dict" ->
            \A k \in 1..Len(value.v) :
                value.v[k][1].t = "bytes" /\ IsBValue(value.v[k][2])
      [] OTHER -> FALSE

\* files handed to decode
DecodeInputs ==
    << << 105, 48, 101 >>,
       << 105, 45, 48, 101 >>,
       << 105, 48, 51, 101 >>,
       << 105, 45, 52, 50, 101 >>,
       << 105, 55, 101 >>,
       << 105, 45, 48, 48, 55, 101 >>,
       << 105, 101 >>,
       << 105, 32, 55, 101 >>,
       << 105, 43, 53, 101 >>,
       << 105, 49, 95, 48, 101 >>,
       << 105, 45, 45, 49, 101 >>,
       << 105, 49, 50 >>,
       << >>,
       << 120 >>,
       << 53, 58, 97, 98 >>,
       << 49, 58, 97 >>,
       << 48, 58 >>,
       << 108, 105, 49, 101 >>,
       << 100, 108, 101, 105, 49, 101, 101 >>,
       << 100, 49, 58, 97, 49, 58, 98, 49, 58, 97, 49, 58, 99, 101 >>,
       << 108, 49, 58, 97, 105, 45, 51, 101, 101 >>,
       << 100, 49, 58, 98, 105, 49, 101, 49, 58, 97, 105, 50, 101, 101 >>,
       << 49, 50, 58, 97, 98, 99, 100, 101, 102, 103, 104, 105, 106, 107, 108 >>,
       << 53, 50 >>,
       << 100, 49, 58, 97 >>,
       << 100, 49, 58, 97, 105, 49 >> >>

\* encoder.encode(value) on the kept encoder
BEncode ==
    /\ lastB.n < MaxCodecCalls
    /\ \E k \in 1..Len(EncodeInputs) :
         LET r == BencodeEncoder_encode(enc, EncodeInputs[k]) IN
         /\ enc' = r.buf
         /\ lastB' = [op |-> "encode", n |-> lastB.n + 1, value |-> EncodeInputs[k],
                      before |-> enc, exc |-> r.exc, ret |-> r.buf.data]
    /\ UNCHANGED << connVars, cliVars, sessVars, mgrVars, pieceVars, trkVars, raceVars >>

\* the caller reads the buffer encode returned: buffer.read()
BRead ==
    /\ lastB.op = "encode"
    /\ lastB.exc = "none"
    /\ enc' = [enc EXCEPT !.pos = Len(enc.data)]
    /\ lastB' = [op |-> "read", n |-> lastB.n, ret |-> Drop(enc.data, enc.pos)]
    /\ UNCHANGED << connVars, cliVars, sessVars, mgrVars, pieceVars, trkVars, raceVars >>

\* BencodeDecoder(io.BytesIO(data)).decode()
BDecode ==
    /\ lastB.n < MaxCodecCalls
    /\ \E k \in 1..Len(DecodeInputs) :
         lastB' = [op |-> "decode", n |-> lastB.n + 1, data |-> DecodeInputs[k],
                   res |-> BencodeDecoder_decode(DecodeInputs[k])]
    /\ UNCHANGED << connVars, cliVars, sessVars, mgrVars, pieceVars, trkVars, raceVars, enc >>

\* encode, decode and encode again, with an encoder made for each encode
BRoundTrip ==
    /\ lastB.n < MaxCodecCalls
    /\ \E k \in 1..Len(EncodeInputs) :
         /\ IsBValue(EncodeInputs[k])
         /\ LET e1 == Bencode(EncodeInputs[k])
                d == BencodeDecoder_decode(e1)
            IN  lastB' = [op |-> "roundtrip", n |-> lastB.n + 1,
                          value |-> EncodeInputs[k], e1 |-> e1, d |-> d,
                          e2 |-> IF d.st = "ok" THEN Bencode(d.val) ELSE << >>]
    /\ UNCHANGED << connVars, cliVars, sessVars, mgrVars, pieceVars, trkVars, raceVars, enc >>

\* a pieces string of n bytes, byte k being k
PiecesBytes(n) == [k \in 1..n |-> k - 1]

\* the info dictionary of a single-file torrent, keys ascending
InfoOf(pieces) ==
    BDict(<< << BBytes(Key.length), BInt(5) >>,
             << BBytes(Key.name), BBytes(<< 102 >>) >>,
             << BBytes(Key.piece_length), BInt(2) >>,
             << BBytes(Key.pieces), BBytes(pieces) >> >>)

\* the same pairs, pieces first
InfoPiecesFirst(pieces) ==
    BDict(<< << BBytes(Key.pieces), BBytes(pieces) >>,
             << BBytes(Key.length), BInt(5) >>,
             << BBytes(Key.name), BBytes(<< 102 >>) >>,
             << BBytes(Key.piece_length), BInt(2) >> >>)

\* the info dictionary of a torrent of two files
InfoMulti(pieces) ==
    BDict(<< << BBytes(Key.files),
                BList(<< BDict(<< << BBytes(Key.length), BInt(3) >>,
                                  << BBytes(Key.path),
                                     BList(<< BBytes(<< 100 >>), BBytes(<< 97 >>) >>) >> >>),
                         BDict(<< << BBytes(Key.length), BInt(2) >>,
                                  << BBytes(Key.path), BList(<< BBytes(<< 98 >>) >>) >> >>) >>) >>,
             << BBytes(Key.name), BBytes(<< 102 >>) >>,
             << BBytes(Key.piece_length), BInt(2) >>,
             << BBytes(Key.pieces), BBytes(pieces) >> >>)

MetaOf(info) ==
    BDict(<< << BBytes(Key.announce), BBytes(<< 116 >>) >>, << BBytes(Key.info), info >> >>)

MetaFull(info) ==
    BDict(<< << BBytes(Key.announce), BBytes(<< 116 >>) >>,
             << BBytes(Key.announce_list), BList(<< BList(<< BBytes(<< 117 >>) >>) >>) >>,
             << BBytes(Key.comment), BBytes(<< 99 >>) >>,
             << BBytes(Key.creation_date), BInt(9) >>,
             << BBytes(Key.info), info >> >>)

\* a metainfo value and the file holding it
FileOf(meta) == [meta |-> meta, file |-> Bencode(meta)]

\* the first n bytes of the file
CutAt(meta, n) == [meta |-> meta, file |-> Take(Bencode(meta), n)]

TorrentInputs ==
    << FileOf(MetaOf(InfoOf(PiecesBytes(0)))),
       FileOf(MetaOf(InfoOf(PiecesBytes(20)))),
       FileOf(MetaOf(InfoOf(PiecesBytes(25)))),
       FileOf(MetaOf(InfoOf(PiecesBytes(40)))),
       FileOf(MetaOf(InfoOf(PiecesBytes(41)))),
       FileOf(MetaOf(InfoOf(PiecesBytes(60)))),
       FileOf(MetaOf(InfoPiecesFirst(PiecesBytes(20)))),
       FileOf(MetaFull(InfoMulti(PiecesBytes(20)))),
       FileOf(MetaOf(BDict(<< << BBytes(Key.name), BBytes(<< 102 >>) >> >>))),
       FileOf(MetaOf(BInt(1))),
       FileOf(BDict(<< << BBytes(Key.announce), BBytes(<< 116 >>) >> >>)),
       FileOf(BList(<< BInt(1) >>)),
       CutAt(MetaOf(InfoOf(PiecesBytes(20))), 31),
       CutAt(MetaOf(InfoOf(PiecesBytes(20))), 60) >>

\* TorrentFile.from_torrent_file(io.BytesIO(file))
BFromTorrentFile ==
    /\ lastB.n < MaxCodecCalls
    /\ \E k \in 1..Len(TorrentInputs) :
         lastB' = [op |-> "from_torrent_file", n |-> lastB.n + 1,
                   meta |-> TorrentInputs[k].meta, file |-> TorrentInputs[k].file,
                   res |-> from_torrent_file(TorrentInputs[k].file)]
    /\ UNCHANGED << connVars, cliVars, sessVars, mgrVars, pieceVars, trkVars, raceVars, enc >>

(***************************************************************************)
(* A client of one P2PConnection calling its methods in any order          *)
(* (console.py and cmd/client.py are such clients).                        *)
(***************************************************************************)
\* a call as `last` records it: pre is handshaked before the call, up
\* whether the socket was connected and not reset, avail the bytes that had
\* arrived, nread and nsent the bytes read and the byte strings sent by it
Call(op, arg, o) ==
    [op |-> op, arg |-> arg, pre |-> handshaked,
     up |-> (sock = "connected" /\ link # "reset"), avail |-> wire,
     st |-> o.st, exc |-> o.exc, ret |-> o.ret,
     nread |-> Len(wire) - Len(o.wire), nsent |-> Len(o.sent) - Len(sent)]

NoCall ==
    [op |-> "none", arg |-> None, pre |-> FALSE, up |-> FALSE, avail |-> << >>,
     st |-> "ret", exc |-> "none", ret |-> None, nread |-> 0, nsent |-> 0]

\* socket.connect: the outcomes the network can produce
ConnectOutcomes == { "none", "ConnectionRefusedError", "TimeoutError", "OSError" }

ConnectExc(outcome) == IF sock # "new" THEN "OSError" ELSE outcome

ClientReady == ncalls < MaxCalls /\ last.st # "hang"

InitConn ==
    /\ sock = "new"
    /\ link = "open"
    /\ wire = << >>
    /\ nPeerSent = 0
    /\ sent = << >>
    /\ handshaked = FALSE

InitIdle ==
    /\ ncalls = 0
    /\ last = NoCall
    /\ hsCount = 0
    /\ msgsRead = 0
    /\ stream = FALSE
    /\ pc = "start"
    /\ this_peer_state = << >>
    /\ remote_peer_state = << >>
    /\ raised = "none"
    /\ nproc = 0
    /\ lastFrame = None
    /\ nops = 0
    /\ lastOp = [op |-> "none"]

CConnect ==
    /\ ClientReady
    /\ \E outcome \in ConnectOutcomes :
         LET e == ConnectExc(outcome) IN
         /\ sock' = IF e = "none" THEN "connected" ELSE sock
         /\ last' = Call("connect", None,
                         Outcome(IF e = "none" THEN "ret" ELSE "exc", e, None,
                                 wire, sent, handshaked))
    /\ ncalls' = ncalls + 1
    /\ UNCHANGED << link, wire, nPeerSent, sent, handshaked, hsCount, msgsRead, stream >>
    /\ UNCHANGED << sessVars, mgrVars >>
    /\ UNCHANGED pieceVars
    /\ UNCHANGED << trkVars, benVars, raceVars >>

CDisconnect ==
    /\ ClientReady
    /\ sock' = "closed"
    /\ last' = Call("disconnect", None,
                    Outcome("ret", "none", None, wire, sent, handshaked))
    /\ ncalls' = ncalls + 1
    /\ UNCHANGED << link, wire, nPeerSent, sent, handshaked, hsCount, msgsRead, stream >>
    /\ UNCHANGED << sessVars, mgrVars >>
    /\ UNCHANGED pieceVars
    /\ UNCHANGED << trkVars, benVars, raceVars >>

CSend ==
    /\ ClientReady
    /\ \E m \in { MkPlain(Interested), MkRequest(0, 0, 16384) } :
         LET e == SendExc
             s == IF e = "none" THEN Append(sent, Encode(m)) ELSE sent IN
         /\ sent' = s
         /\ last' = Call("send", m,
                         Outcome(IF e = "none" THEN "ret" ELSE "exc", e, None,
                                 wire, s, handshaked))
    /\ ncalls' = ncalls + 1
    /\ UNCHANGED << sock, link, wire, nPeerSent, handshaked, hsCount, msgsRead, stream >>
    /\ UNCHANGED << sessVars, mgrVars >>
    /\ UNCHANGED pieceVars
    /\ UNCHANGED << trkVars, benVars, raceVars >>

CHandshake ==
    /\ ClientReady
    /\ \E ih \in { H1, H2 }, plan \in Plans :
         LET h == MkHandshake(ih, PeerId)
             o == HandshakeCall(h, plan) IN
         /\ o.st # "block"
         /\ wire' = o.wire
         /\ sent' = o.sent
         /\ handshaked' = o.handshaked
         /\ hsCount' = IF o.st = "ret" THEN hsCount + 1 ELSE hsCount
         /\ last' = Call("handshake", h, o)
    /\ ncalls' = ncalls + 1
    /\ UNCHANGED << sock, link, nPeerSent, msgsRead, stream >>
    /\ UNCHANGED << sessVars, mgrVars >>
    /\ UNCHANGED pieceVars
    /\ UNCHANGED << trkVars, benVars, raceVars >>

CReceive ==
    /\ ClientReady
    /\ \E plan \in Plans :
         LET o == ReceiveCall(plan) IN
         /\ o.st # "block"
         /\ wire' = o.wire
         /\ msgsRead' = IF o.st = "ret" THEN msgsRead + 1 ELSE msgsRead
         /\ last' = Call("receive", None, o)
    /\ ncalls' = ncalls + 1
    /\ UNCHANGED << sock, link, nPeerSent, sent, handshaked, hsCount, stream >>
    /\ UNCHANGED << sessVars, mgrVars >>
    /\ UNCHANGED pieceVars
    /\ UNCHANGED << trkVars, benVars, raceVars >>

\* P2PReadMessageStream(conn)
CStream ==
    /\ ClientReady
    /\ stream' = IF StreamRefused THEN stream ELSE TRUE
    /\ last' = Call("stream", None,
                    Outcome(IF StreamRefused THEN "exc" ELSE "ret",
                            IF StreamRefused THEN "ValueError" ELSE "none",
                            None, wire, sent, handshaked))
    /\ ncalls' = ncalls + 1
    /\ UNCHANGED << sock, link, wire, nPeerSent, sent, handshaked, hsCount, msgsRead >>
    /\ UNCHANGED << sessVars, mgrVars >>
    /\ UNCHANGED pieceVars
    /\ UNCHANGED << trkVars, benVars, raceVars >>

\* next(stream)
CNext ==
    /\ ClientReady
    /\ stream
    /\ \E plan \in Plans :
         LET o == StreamNext(plan) IN
         /\ o.st # "block"
         /\ wire' = o.wire
         /\ msgsRead' = IF o.st = "ret" THEN msgsRead + 1 ELSE msgsRead
         /\ last' = Call("next", None, o)
    /\ ncalls' = ncalls + 1
    /\ UNCHANGED << sock, link, nPeerSent, sent, handshaked, hsCount, stream >>
    /\ UNCHANGED << sessVars, mgrVars >>
    /\ UNCHANGED pieceVars
    /\ UNCHANGED << trkVars, benVars, raceVars >>

InitC ==
    /\ InitConn /\ InitIdle /\ InitPieceIdle /\ InitTrkIdle /\ InitBenIdle
    /\ InitRaceIdle
    /\ peers = << >>

NextC ==
    \/ CConnect \/ CDisconnect \/ CSend \/ CHandshake \/ CReceive \/ CStream \/ CNext
    \/ PeerSend \/ PeerClose \/ PeerReset

\* the P2PConnection under any client
SpecConn == InitC /\ [][NextC]_vars

(***************************************************************************)
(* PieceLookup and PiecesManager.  A lookup is a function from the piece   *)
(* indexes it has a key for to booleans; peers is a function from the      *)
(* peers it has a key for to lookups.                                      *)
(***************************************************************************)
EmptyLookup == [i \in {} |-> FALSE]

\* dict.get(key), None counted as false
LookupGet(lookup, i) == i \in DOMAIN lookup /\ lookup[i]

\* PieceLookup.add_by_have_message
add_by_have_message(lookup, have) ==
    [i \in DOMAIN lookup \cup {have.piece_index} |->
        IF i = have.piece_index THEN TRUE ELSE lookup[i]]

BitfieldEntry_Overwrite(lookup, piece_index, piece_exists) == piece_exists

\* the value add_by_bitfield_message stores for one enumerated bit
BitfieldEntry(lookup, piece_index, piece_exists) ==
    LookupGet(lookup, piece_index) \/ piece_exists

\* PieceLookup.add_by_bitfield_message
add_by_bitfield_message(lookup, bitfield) ==
    LET n == Len(bitfield.bit_field_lookup) IN
    [i \in DOMAIN lookup \cup (0..(n - 1)) |->
        IF i \in 0..(n - 1)
        THEN BitfieldEntry(lookup, i, bitfield.bit_field_lookup[i + 1])
        ELSE lookup[i]]

\* self.peers.get(peer, PieceLookup())
PeersGet(ps, peer) == IF peer \in DOMAIN ps THEN ps[peer] ELSE EmptyLookup

PeersPut(ps, peer, lookup) ==
    [q \in DOMAIN ps \cup {peer} |-> IF q = peer THEN lookup ELSE ps[q]]

\* PiecesManager.update_peer_with_bitfield
update_peer_with_bitfield(ps, peer, bitfield) ==
    PeersPut(ps, peer, add_by_bitfield_message(PeersGet(ps, peer), bitfield))

\* PiecesManager.update_peer_with_have_message
update_peer_with_have_message(ps, peer, have) ==
    PeersPut(ps, peer, add_by_have_message(PeersGet(ps, peer), have))

\* PiecesManager.remove_peer: self.peers.pop(peer, None)
remove_peer(ps, peer) == [q \in DOMAIN ps \ {peer} |-> ps[q]]

\* PiecesManager.add_piece: a docstring and no statement
add_piece(ps, piece) == ps

\* getattr(pieces_manager, name)(peer, arg): the methods PiecesManager
\* defines; any other name raises AttributeError
ManagerCall(name, ps, peer, arg) ==
    CASE name = "update_peer_with_bitfield" ->
            [exc |-> "none", peers |-> update_peer_with_bitfield(ps, peer, arg)]
      [] name = "update_peer_with_have_message" ->
            [exc |-> "none", peers |-> update_peer_with_have_message(ps, peer, arg)]
      [] name = "remove_peer" -> [exc |-> "none", peers |-> remove_peer(ps, peer)]
      [] name = "add_piece" -> [exc |-> "none", peers |-> add_piece(ps, arg)]
      [] OTHER -> [exc |-> "AttributeError", peers |-> ps]

(***************************************************************************)
(* TorrentPeerConnection                                                   *)
(***************************************************************************)
\* x in list
InList(x, l) == \E k \in 1..Len(l) : l[k] = x

\* list.remove(x) for an x in the list: the first occurrence goes
RECURSIVE ListRemove(_, _)
ListRemove(l, x) ==
    IF l = << >> THEN l
    ELSE IF Head(l) = x THEN Tail(l)
    ELSE << Head(l) >> \o ListRemove(Tail(l), x)

\* if old in state: state.remove(old); state.append(new)
Switch(state, old, new) ==
    Append(IF InList(old, state) THEN ListRemove(state, old) ELSE state, new)

\* TorrentPeerConnection._have_given
HaveGiven(ps, message) == ManagerCall("add_peer_with_have_message", ps, P1, message)

\* TorrentPeerConnection._bitfield_given
BitfieldGiven(ps, message) == ManagerCall("add_peer_with_bitfield", ps, P1, message)

\* TorrentPeerConnection._piece_given
PieceGiven(ps, message) == ManagerCall("add_piece", ps, P1, message)

\* TorrentPeerConnection._request_piece: pass
RequestPiece(s) == s

\* the if/elif chain of the read loop of _communicate for one message:
\* the two state lists and the coordinator after it, or the exception
Dispatch(message, tps, rps, ps) ==
    LET same == [exc |-> "none", this |-> tps, remote |-> rps, peers |-> ps]
        coord(r) == [same EXCEPT !.exc = r.exc, !.peers = r.peers]
    IN CASE message.id = Interested ->
              [same EXCEPT !.remote = Switch(rps, "not interested", "interested")]
         [] message.id = NotInterested ->
              [same EXCEPT !.remote = Switch(rps, "interested", "not interested")]
         [] message.id = Choke ->
              [same EXCEPT !.this = Switch(tps, "unchoked", "choked")]
         [] message.id = Unchoke ->
              [same EXCEPT !.this = Switch(tps, "choked", "unchoked")]
         [] message.id = Have -> coord(HaveGiven(ps, message))
         [] message.id = BitField -> coord(BitfieldGiven(ps, message))
         [] message.id = Piece -> coord(PieceGiven(ps, message))
         [] OTHER -> same

MayRequest_IgnoreChoke(tps) ==
    /\ InList("interested", tps)
    /\ ~InList("pending request", tps)

\* the condition under which the loop records a pending request
MayRequest(tps) ==
    /\ ~InList("choked", tps)
    /\ InList("interested", tps)
    /\ ~InList("pending request", tps)

\* one pass of the loop body: Dispatch, then the request check
LoopBody(message, tps, rps, ps, s) ==
    LET d == Dispatch(message, tps, rps, ps) IN
    IF d.exc # "none" THEN [d EXCEPT !.this = tps] @@ [sent |-> s]
    ELSE IF MayRequest(d.this)
    THEN [d EXCEPT !.this = Append(d.this, "pending request")]
            @@ [sent |-> RequestPiece(s)]
    ELSE d @@ [sent |-> s]

\* the exceptions communicate() catches
CaughtByCommunicate ==
    { "ProtocolError", "ConnectionRefusedError", "TimeoutError", "ConnectionResetError" }

\* TorrentPeerConnection.cancel
CancelPeers(ps) == ManagerCall("remove_peer", ps, P1, None).peers

\* how communicate() ends once _communicate returned (e = "none") or
\* raised e: cancel() runs unless the exception passes through
CommunicateEnds(e, ps, sk) ==
    IF e = "none" \/ e \in CaughtByCommunicate
    THEN [pc |-> "returned", raised |-> "none", peers |-> CancelPeers(ps), sock |-> "closed"]
    ELSE [pc |-> "raised", raised |-> e, peers |-> ps, sock |-> sk]

\* coordinator states a session can start in
InitialPeers ==
    { EmptyLookup,
      update_peer_with_have_message(EmptyLookup, P2, MkHave(1)),
      update_peer_with_bitfield(
          update_peer_with_have_message(EmptyLookup, P2, MkHave(1)),
          P1, MkBitField(<<64>>)) }

\* self.connection.connect()
SConnect ==
    /\ pc = "start"
    /\ \E outcome \in ConnectOutcomes :
         LET e == ConnectExc(outcome)
             c == CommunicateEnds(e, peers, sock) IN
         IF e = "none"
         THEN /\ sock' = "connected"
              /\ pc' = "connected"
              /\ UNCHANGED << raised, peers >>
         ELSE /\ sock' = c.sock
              /\ pc' = c.pc
              /\ raised' = c.raised
              /\ peers' = c.peers
    /\ UNCHANGED << link, wire, nPeerSent, sent, handshaked >>
    /\ UNCHANGED << this_peer_state, remote_peer_state, nproc, lastFrame >>
    /\ UNCHANGED << cliVars, nops, lastOp >>
    /\ UNCHANGED pieceVars
    /\ UNCHANGED << trkVars, benVars, raceVars >>

\* self.connection.handshake(Handshake(info_hash, peer_id))
SHandshake ==
    /\ pc = "connected"
    /\ \E plan \in Plans :
         LET h == MkHandshake(TorrentInfoHash, PeerId)
             o == HandshakeCall(h, plan)
             c == CommunicateEnds(o.exc, peers, sock) IN
         /\ o.st # "block"
         /\ wire' = o.wire
         /\ sent' = o.sent
         /\ handshaked' = o.handshaked
         /\ hsCount' = IF o.st = "ret" THEN hsCount + 1 ELSE hsCount
         /\ last' = Call("handshake", h, o)
         /\ IF o.st = "ret"
            THEN /\ pc' = "handshaked"
                 /\ UNCHANGED << sock, raised, peers >>
            ELSE /\ sock' = c.sock
                 /\ pc' = c.pc
                 /\ raised' = c.raised
                 /\ peers' = c.peers
    /\ UNCHANGED << link, nPeerSent >>
    /\ UNCHANGED << this_peer_state, remote_peer_state, nproc, lastFrame >>
    /\ UNCHANGED << ncalls, msgsRead, stream, nops, lastOp >>
    /\ UNCHANGED pieceVars
    /\ UNCHANGED << trkVars, benVars, raceVars >>

AfterHandshake_NoSend(tps, s) ==
    [exc |-> "none", this |-> tps \o << "choked", "interested" >>, sent |-> s]

\* the statements of _communicate between the handshake and the loop:
\* append('choked'); send(Interested()); append('interested')
AfterHandshake(tps, s) ==
    IF SendExc # "none"
    THEN [exc |-> SendExc, this |-> Append(tps, "choked"), sent |-> s]
    ELSE [exc |-> "none", this |-> tps \o << "choked", "interested" >>,
          sent |-> Append(s, Encode(MkPlain(Interested)))]

\* from the handshake to the loop; P2PReadMessageStream(self.connection)
SInterested ==
    /\ pc = "handshaked"
    /\ LET a == AfterHandshake(this_peer_state, sent)
           e == IF a.exc # "none" THEN a.exc
                ELSE IF StreamRefused THEN "ValueError" ELSE "none"
           c == CommunicateEnds(e, peers, sock) IN
       /\ sent' = a.sent
       /\ this_peer_state' = a.this
       /\ IF e = "none"
          THEN /\ pc' = "loop"
               /\ stream' = TRUE
               /\ UNCHANGED << sock, raised, peers >>
          ELSE /\ sock' = c.sock
               /\ pc' = c.pc
               /\ raised' = c.raised
               /\ peers' = c.peers
               /\ UNCHANGED stream
    /\ UNCHANGED << link, wire, nPeerSent, handshaked >>
    /\ UNCHANGED << remote_peer_state, nproc, lastFrame >>
    /\ UNCHANGED << ncalls, last, hsCount, msgsRead, nops, lastOp >>
    /\ UNCHANGED pieceVars
    /\ UNCHANGED << trkVars, benVars, raceVars >>

\* one iteration of: for message in P2PReadMessageStream(...)
SNext ==
    /\ pc = "loop"
    /\ \E plan \in Plans : \E o \in { StreamNext(plan) } :
         LET b == LoopBody(o.ret, this_peer_state, remote_peer_state, peers, sent)
             e == IF o.st = "ret" THEN b.exc ELSE "none"
             c == CommunicateEnds(e, peers, sock) IN
         /\ o.st # "block"
         /\ wire' = o.wire
         /\ last' = Call("next", None, o)
         /\ CASE o.st = "hang" ->
                   /\ pc' = "hung"
                   /\ UNCHANGED << sock, raised, peers, sent, this_peer_state,
                                   remote_peer_state, nproc, lastFrame, msgsRead >>
              [] o.st = "exc" ->
                   /\ sock' = c.sock
                   /\ pc' = c.pc
                   /\ raised' = c.raised
                   /\ peers' = c.peers
                   /\ UNCHANGED << sent, this_peer_state, remote_peer_state, nproc,
                                   lastFrame, msgsRead >>
              [] o.st = "ret" /\ b.exc = "none" ->
                   /\ this_peer_state' = b.this
                   /\ remote_peer_state' = b.remote
                   /\ peers' = b.peers
                   /\ sent' = b.sent
                   /\ nproc' = nproc + 1
                   /\ lastFrame' = o.ret
                   /\ msgsRead' = msgsRead + 1
                   /\ UNCHANGED << sock, pc, raised >>
              [] o.st = "ret" /\ b.exc # "none" ->
                   /\ sock' = c.sock
                   /\ pc' = c.pc
                   /\ raised' = c.raised
                   /\ peers' = c.peers
                   /\ nproc' = nproc + 1
                   /\ lastFrame' = o.ret
                   /\ msgsRead' = msgsRead + 1
                   /\ UNCHANGED << sent, this_peer_state, remote_peer_state >>
    /\ UNCHANGED << link, nPeerSent, handshaked >>
    /\ UNCHANGED << ncalls, hsCount, stream, nops, lastOp >>
    /\ UNCHANGED pieceVars
    /\ UNCHANGED << trkVars, benVars, raceVars >>

InitS ==
    /\ InitConn
    /\ InitIdle
    /\ InitTrkIdle
    /\ InitBenIdle
    /\ InitRaceIdle
    /\ InitPieceIdle
    /\ peers \in InitialPeers

NextS ==
    \/ SConnect \/ SHandshake \/ SInterested \/ SNext
    \/ PeerSend \/ PeerClose \/ PeerReset

\* one run of TorrentPeerConnection.communicate against a remote peer
Spec == InitS /\ [][NextS]_vars

(***************************************************************************)
(* The PiecesManager under any sequence of calls of its methods.           *)
(***************************************************************************)
Peers == { P1, P2 }

HaveMessages == { MkHave(1), MkHave(9) }

BitFieldMessages == { MkBitField(<<129>>), MkBitField(<<64>>), MkBitField(<<0, 128>>) }

MUpdateBitfield ==
    /\ nops < MaxOps
    /\ \E p \in Peers, bitfield \in BitFieldMessages :
         /\ peers' = ManagerCall("update_peer_with_bitfield", peers, p, bitfield).peers
         /\ lastOp' = [op |-> "bitfield", peer |-> p, arg |-> bitfield]
    /\ nops' = nops + 1
    /\ UNCHANGED << connVars, cliVars, sessVars >>
    /\ UNCHANGED pieceVars
    /\ UNCHANGED << trkVars, benVars, raceVars >>

MUpdateHave ==
    /\ nops < MaxOps
    /\ \E p \in Peers, have \in HaveMessages :
         /\ peers' = ManagerCall("update_peer_with_have_message", peers, p, have).peers
         /\ lastOp' = [op |-> "have", peer |-> p, arg |-> have]
    /\ nops' = nops + 1
    /\ UNCHANGED << connVars, cliVars, sessVars >>
    /\ UNCHANGED pieceVars
    /\ UNCHANGED << trkVars, benVars, raceVars >>

MRemovePeer ==
    /\ nops < MaxOps
    /\ \E p \in Peers :
         /\ peers' = ManagerCall("remove_peer", peers, p, None).peers
         /\ lastOp' = [op |-> "remove", peer |-> p, arg |-> None]
    /\ nops' = nops + 1
    /\ UNCHANGED << connVars, cliVars, sessVars >>
    /\ UNCHANGED pieceVars
    /\ UNCHANGED << trkVars, benVars, raceVars >>

InitM ==
    /\ InitConn /\ InitIdle /\ InitPieceIdle /\ InitTrkIdle /\ InitBenIdle
    /\ InitRaceIdle
    /\ peers = EmptyLookup

NextM == MUpdateBitfield \/ MUpdateHave \/ MRemovePeer

SpecMgr == InitM /\ [][NextM]_vars

(***************************************************************************)
(* One Piece under any sequence of calls of its methods, made for either   *)
(* peer, next to the session of P1 ending (cancel) or asking for work      *)
(* (_request_piece).                                                       *)
(***************************************************************************)
Offsets == { 0, 1, 5 }

Datas == { << 1 >>, << 2 >> }

OwnerPut(ow, offset, p) ==
    [o \in DOMAIN ow \cup {offset} |-> IF o = offset THEN p ELSE ow[o]]

\* piece.next_block_for_request(), called to find work for peer p
PNextBlock ==
    /\ pnops < MaxPieceOps
    /\ \E p \in Peers :
         LET r == next_block_for_request(blocks) IN
         /\ blocks' = r.blocks
         /\ owner' = IF r.ret = None THEN owner ELSE OwnerPut(owner, r.ret.offset, p)
         /\ lastP' = PieceCall("next_block_for_request", p, 0, << >>, "none", r.ret, FALSE)
    /\ pnops' = pnops + 1
    /\ UNCHANGED verified
    /\ UNCHANGED << connVars, cliVars, sessVars, mgrVars >>
    /\ UNCHANGED << trkVars, benVars, raceVars >>

\* piece.add_block(offset, data), the block having come from peer p
PAddBlock ==
    /\ pnops < MaxPieceOps
    /\ \E p \in Peers, offset \in Offsets, data \in Datas :
         LET r == add_block(blocks, offset, data) IN
         /\ blocks' = r.blocks
         /\ lastP' = PieceCall("add_block", p, offset, data, r.exc, None, FALSE)
    /\ pnops' = pnops + 1
    /\ UNCHANGED << owner, verified >>
    /\ UNCHANGED << connVars, cliVars, sessVars, mgrVars >>
    /\ UNCHANGED << trkVars, benVars, raceVars >>

\* piece.reset()
PReset ==
    /\ pnops < MaxPieceOps
    /\ blocks' = reset(blocks)
    /\ lastP' = PieceCall("reset", P1, 0, << >>, "none", None, FALSE)
    /\ pnops' = pnops + 1
    /\ UNCHANGED << owner, verified >>
    /\ UNCHANGED << connVars, cliVars, sessVars, mgrVars >>
    /\ UNCHANGED << trkVars, benVars, raceVars >>

\* piece.is_complete() and piece.is_hash_matching()
PVerify ==
    /\ pnops < MaxPieceOps
    /\ LET ok == is_complete(blocks) /\ is_hash_matching(blocks, ThePiece.hash) IN
       /\ verified' = (verified \/ ok)
       /\ lastP' = PieceCall("verify", P1, 0, << >>, "none", None, ok)
    /\ pnops' = pnops + 1
    /\ UNCHANGED << blocks, owner >>
    /\ UNCHANGED << connVars, cliVars, sessVars, mgrVars >>
    /\ UNCHANGED << trkVars, benVars, raceVars >>

\* TorrentPeerConnection.cancel of the session of P1
PCancel ==
    /\ pnops < MaxPieceOps
    /\ peers' = CancelPeers(peers)
    /\ sock' = "closed"
    /\ lastP' = PieceCall("cancel", P1, 0, << >>, "none", None, FALSE)
    /\ pnops' = pnops + 1
    /\ UNCHANGED << blocks, owner, verified >>
    /\ UNCHANGED << link, wire, nPeerSent, sent, handshaked, nops, lastOp >>
    /\ UNCHANGED << cliVars, sessVars >>
    /\ UNCHANGED << trkVars, benVars, raceVars >>

\* TorrentPeerConnection._request_piece of the session of P1
PRequestPiece ==
    /\ pnops < MaxPieceOps
    /\ sent' = RequestPiece(sent)
    /\ lastP' = PieceCall("_request_piece", P1, 0, << >>, "none", None, FALSE)
    /\ pnops' = pnops + 1
    /\ UNCHANGED << blocks, owner, verified >>
    /\ UNCHANGED << sock, link, wire, nPeerSent, handshaked >>
    /\ UNCHANGED << cliVars, sessVars, mgrVars >>
    /\ UNCHANGED << trkVars, benVars, raceVars >>

InitP ==
    /\ InitConn
    /\ InitIdle
    /\ InitTrkIdle
    /\ InitBenIdle
    /\ InitRaceIdle
    /\ peers \in InitialPeers
    /\ \E list \in BlockLists : InitPiece(list)

NextP == PNextBlock \/ PAddBlock \/ PReset \/ PVerify \/ PCancel \/ PRequestPiece

SpecPiece == InitP /\ [][NextP]_vars

\* availability[p][i] as the coordinator records it
Available(ps, p, i) == p \in DOMAIN ps /\ LookupGet(ps[p], i)

\* a frame is an encoded Request
IsRequestFrame(b) == Len(b) >= 5 /\ b[5] = Request

(***************************************************************************)
(* The session of P1 against a peer that stays: it answers the handshake,  *)
(* unchokes, sends a Piece frame for every Request it was sent and never   *)
(* closes or resets the connection.  The coordinator records that P1 has   *)
(* the piece.  Every step that can be taken is taken eventually.           *)
(***************************************************************************)
\* coordinator states in which P1 is recorded as having the piece
CoveringPeers ==
    { ps \in InitialPeers : Available(ps, P1, ThePiece.index) }
      \cup { update_peer_with_bitfield(EmptyLookup, P1, MkBitField(<< 255 >>)),
             update_peer_with_have_message(EmptyLookup, P1, MkHave(ThePiece.index)) }

\* the Request frames the session has sent
RequestsSent == { k \in 1..Len(sent) : IsRequestFrame(sent[k]) }

\* the Piece frame that serves the Request frame b
PieceFor(b) ==
    LET q == DecodeFromRaw(Request, FromBytes(b)).msg IN
    Encode(MkPiece(q.index, q.begin, Rep(1, q.length)))

\* what the peer sends of its own accord
ServedFrames ==
    { Encode(MkPlain(Unchoke)), Encode(MkPlain(KeepAlive)),
      Encode(MkPiece(ThePiece.index, 0, << 1 >>)),
      Encode(MkPiece(ThePiece.index, 1, << 2 >>)) }

LPeerServe ==
    /\ link = "open"
    /\ sock = "connected"
    /\ wire = << >>
    /\ nPeerSent <= MaxFrames
    /\ \E b \in (IF nPeerSent = 0 THEN { Encode(MkHandshake(TorrentInfoHash, RemoteId)) }
                 ELSE ServedFrames \cup { PieceFor(sent[k]) : k \in RequestsSent }) :
          wire' = b
    /\ nPeerSent' = nPeerSent + 1
    /\ UNCHANGED << sock, link, sent, handshaked >>
    /\ UNCHANGED << cliVars, sessVars, mgrVars >>
    /\ UNCHANGED pieceVars
    /\ UNCHANGED << trkVars, benVars, raceVars >>

InitL ==
    /\ InitConn
    /\ InitIdle
    /\ InitTrkIdle
    /\ InitBenIdle
    /\ InitRaceIdle
    /\ InitPieceIdle
    /\ peers \in CoveringPeers

NextL == SConnect \/ SHandshake \/ SInterested \/ SNext \/ LPeerServe

SpecLive == InitL /\ [][NextL]_vars /\ WF_vars(NextL)

(***************************************************************************)
(* A TrackersManager over two tracker clients, and a tracker client        *)
(* called by its owner                                                     *)
(***************************************************************************)
\* TrackersManager.get_remote_peers, the clock read at its start
TGetRemotePeers ==
    /\ lastG.n < MaxManagerCalls
    /\ lastG.exc # "hang"
    /\ \E t \in now..MaxNow :
       \E rs \in [1..Len(trackers) -> 1..Len(answers)] :
       \E run \in { get_remote_peers(trackers, t, [k \in 1..Len(trackers) |-> answers[rs[k]]]) } :
         /\ trackers' = run.trackers
         /\ now' = t
         /\ lastG' = [op |-> "get_remote_peers", n |-> lastG.n + 1, exc |-> run.exc,
                      now |-> t, pre |-> trackers, reached |-> run.reached,
                      requests |-> run.requests, fetched |-> run.fetched,
                      ret |-> run.all_avaliable_peers]
    /\ UNCHANGED << connVars, cliVars, sessVars, mgrVars, pieceVars, benVars, raceVars, answers >>

\* tracker.get_available_peers() called by the owner of the tracker
TAnnounce ==
    /\ lastG.n < MaxAnnounces
    /\ lastG.exc # "hang"
    /\ \E k \in 1..Len(trackers) : \E r \in 1..Len(answers) :
       \E res \in { get_available_peers(trackers[k].tracker, answers[r]) } :
         /\ trackers' = [trackers EXCEPT ![k].tracker = res.tracker]
         /\ lastG' = [op |-> "get_available_peers", n |-> lastG.n + 1, exc |-> res.exc,
                      index |-> k, pre |-> trackers[k].tracker, response |-> r,
                      request |-> res.request, ret |-> res.peers]
    /\ UNCHANGED << connVars, cliVars, sessVars, mgrVars, pieceVars, benVars, raceVars, now, answers >>

\* TrackersManager.__init__ over n tracker clients just made
InitTrackers(n) ==
    /\ trackers = [k \in 1..n |-> [tracker |-> NewTracker, last_visited |-> << >>]]
    /\ now = 0
    /\ lastG = [op |-> "none", n |-> 0, exc |-> "none"]
    /\ answers = Responses

InitT ==
    /\ InitConn
    /\ InitIdle
    /\ InitPieceIdle
    /\ InitBenIdle
    /\ InitRaceIdle
    /\ InitTrackers(2)
    /\ peers = << >>

NextT == TGetRemotePeers

SpecTrk == InitT /\ [][NextT]_vars

InitA ==
    /\ InitConn
    /\ InitIdle
    /\ InitPieceIdle
    /\ InitBenIdle
    /\ InitRaceIdle
    /\ InitTrackers(1)
    /\ peers = << >>

NextA == TAnnounce

SpecAnn == InitA /\ [][NextA]_vars

(***************************************************************************)
(* The codec and the metainfo parser alone                                 *)
(***************************************************************************)
InitB ==
    /\ InitConn
    /\ InitIdle
    /\ InitPieceIdle
    /\ InitTrkIdle
    /\ InitBenIdle
    /\ InitRaceIdle
    /\ peers = << >>

NextB == BEncode \/ BRead \/ BDecode \/ BRoundTrip \/ BFromTorrentFile

SpecBen == InitB /\ [][NextB]_vars

(***************************************************************************)
(* The messages alone: encode(), RawPeerMessage.from_bytes and the class's *)
(* decode_from_raw                                                         *)
(***************************************************************************)
\* field values: small, around a byte boundary, the default request size,
\* the largest 31-bit value
Indexes == { 0, 1, 70000 }

RequestLengths == { 0, 16384, 2147483647 }

MessageInputs ==
    { MkPlain(id) : id \in { KeepAlive, Choke, Unchoke, Interested, NotInterested } }
    \cup { MkHave(i) : i \in { 0, 1, 255, 256, 65535, 16777216, 2147483647 } }
    \cup { MkBitField(raw) :
             raw \in { << >>, << 0 >>, << 129 >>, << 255, 1 >>, << 64, 0, 7 >> } }
    \cup { MkRequest(i, b, l) : i \in Indexes, b \in Indexes, l \in RequestLengths }
    \cup { MkCancel(i, b, l) : i \in Indexes, b \in Indexes, l \in RequestLengths }
    \cup { MkPiece(i, b, block) : i \in Indexes, b \in Indexes,
             block \in { << >>, << 1 >>, << 1, 2, 3 >>, H1 } }
    \cup { MkPort(p) : p \in { 0, 80, 6881, 65535, 70000 } }

\* M.encode(), then from_bytes, then decode_from_raw of M's class
MRoundTrip ==
    /\ \E m \in MessageInputs : \E e \in { Encode(m) } : \E raw \in { FromBytes(e) } :
         lastB' = [op |-> "frame", n |-> 1, msg |-> m, bytes |-> e, raw |-> raw,
                   d |-> IF raw.exc = "none" THEN DecodeFromRaw(m.id, raw)
                         ELSE Raise(raw.exc)]
    /\ UNCHANGED << connVars, cliVars, sessVars, mgrVars, pieceVars, trkVars, raceVars, enc >>

InitMsg ==
    /\ InitConn
    /\ InitIdle
    /\ InitPieceIdle
    /\ InitTrkIdle
    /\ InitBenIdle
    /\ InitRaceIdle
    /\ peers = << >>

NextMsg == MRoundTrip

SpecMsg == InitMsg /\ [][NextMsg]_vars

(***************************************************************************)
(* One PiecesManager called by concurrent session tasks.  PiecesManager    *)
(* holds no lock, so a task takes one step per statement of the method it  *)
(* runs and another task may run between two statements; inside            *)
(* add_by_bitfield_message that is between the lookup.get of an index and  *)
(* the store into it.  PieceLookup objects are shared by reference: heap   *)
(* holds their lookups, refs is PiecesManager.peers.                       *)
(***************************************************************************)
\* the calls the tasks make
RaceCalls ==
    { [op |-> "have", peer |-> P1, arg |-> MkHave(1)],
      [op |-> "have", peer |-> P1, arg |-> MkHave(9)],
      [op |-> "have", peer |-> P2, arg |-> MkHave(1)],
      [op |-> "bitfield", peer |-> P1, arg |-> MkBitField(<<64>>)],
      [op |-> "bitfield", peer |-> P2, arg |-> MkBitField(<<129>>)],
      [op |-> "remove", peer |-> P1, arg |-> None] }

\* a task that has not started its call
NewTask(call) ==
    [call |-> call, pc |-> IF call.op = "remove" THEN "pop" ELSE "get",
     ref |-> 0, i |-> 0, val |-> FALSE]

\* the coordinator before the calls: no peer, or peer1 with piece 1
RaceStarts ==
    { [heap |-> << >>, refs |-> << >>],
      [heap |-> << add_by_have_message(EmptyLookup, MkHave(1)) >>,
       refs |-> [q \in { P1 } |-> 1]] }

\* PiecesManager.peers with every reference replaced by the lookup it
\* refers to
PeersOf(h, r) == [q \in DOMAIN r |-> h[r[q]]]

\* the whole call, as one task alone runs it
RunCall(ps, call) ==
    ManagerCall(CASE call.op = "have" -> "update_peer_with_have_message"
                  [] call.op = "bitfield" -> "update_peer_with_bitfield"
                  [] call.op = "remove" -> "remove_peer",
                ps, call.peer, call.arg).peers

\* lookup = self.peers.get(peer, PieceLookup())
RGet ==
    \E t \in DOMAIN tasks :
      /\ tasks[t].pc = "get"
      /\ LET call == tasks[t].call
             known == call.peer \in DOMAIN refs
             ref == IF known THEN refs[call.peer] ELSE Len(heap) + 1
         IN  /\ heap' = IF known THEN heap ELSE Append(heap, EmptyLookup)
             /\ tasks' = [tasks EXCEPT ![t].ref = ref,
                            ![t].pc = CASE call.op = "have" -> "add"
                                        [] call.arg.bit_field_lookup = << >> -> "store"
                                        [] OTHER -> "read"]
      /\ UNCHANGED << refs, started >>
      /\ UNCHANGED << connVars, cliVars, sessVars, mgrVars, pieceVars, trkVars, benVars >>

\* lookup.add_by_have_message(have): self.lookup[have.piece_index] = True
RAdd ==
    \E t \in DOMAIN tasks :
      /\ tasks[t].pc = "add"
      /\ heap' = [heap EXCEPT ![tasks[t].ref] = add_by_have_message(@, tasks[t].call.arg)]
      /\ tasks' = [tasks EXCEPT ![t].pc = "store"]
      /\ UNCHANGED << refs, started >>
      /\ UNCHANGED << connVars, cliVars, sessVars, mgrVars, pieceVars, trkVars, benVars >>

\* add_by_bitfield_message, the right-hand side for one enumerated bit:
\* self.lookup.get(piece_index) or piece_exists
RRead ==
    \E t \in DOMAIN tasks :
      /\ tasks[t].pc = "read"
      /\ tasks' = [tasks EXCEPT
                     ![t].val = BitfieldEntry(heap[tasks[t].ref], tasks[t].i,
                                    tasks[t].call.arg.bit_field_lookup[tasks[t].i + 1]),
                     ![t].pc = "write"]
      /\ UNCHANGED << heap, refs, started >>
      /\ UNCHANGED << connVars, cliVars, sessVars, mgrVars, pieceVars, trkVars, benVars >>

\* add_by_bitfield_message, the store: self.lookup[piece_index] = ...
RWrite ==
    \E t \in DOMAIN tasks :
      /\ tasks[t].pc = "write"
      /\ LET i == tasks[t].i
             n == Len(tasks[t].call.arg.bit_field_lookup)
         IN  /\ heap' = [heap EXCEPT ![tasks[t].ref] =
                           [j \in DOMAIN @ \cup { i } |->
                               IF j = i THEN tasks[t].val ELSE @[j]]]
             /\ tasks' = [tasks EXCEPT ![t].i = i + 1,
                            ![t].pc = IF i + 1 < n THEN "read" ELSE "store"]
      /\ UNCHANGED << refs, started >>
      /\ UNCHANGED << connVars, cliVars, sessVars, mgrVars, pieceVars, trkVars, benVars >>

\* self.peers[peer] = lookup
RStore ==
    \E t \in DOMAIN tasks :
      /\ tasks[t].pc = "store"
      /\ refs' = PeersPut(refs, tasks[t].call.peer, tasks[t].ref)
      /\ tasks' = [tasks EXCEPT ![t].pc = "done"]
      /\ UNCHANGED << heap, started >>
      /\ UNCHANGED << connVars, cliVars, sessVars, mgrVars, pieceVars, trkVars, benVars >>

\* remove_peer: self.peers.pop(peer, None)
RRemove ==
    \E t \in DOMAIN tasks :
      /\ tasks[t].pc = "pop"
      /\ refs' = remove_peer(refs, tasks[t].call.peer)
      /\ tasks' = [tasks EXCEPT ![t].pc = "done"]
      /\ UNCHANGED << heap, started >>
      /\ UNCHANGED << connVars, cliVars, sessVars, mgrVars, pieceVars, trkVars, benVars >>

InitR ==
    /\ InitConn
    /\ InitIdle
    /\ InitPieceIdle
    /\ InitTrkIdle
    /\ InitBenIdle
    /\ peers = << >>
    /\ \E s \in RaceStarts :
         /\ heap = s.heap
         /\ refs = s.refs
         /\ started = PeersOf(s.heap, s.refs)
    /\ \E a \in RaceCalls, b \in RaceCalls : tasks = << NewTask(a), NewTask(b) >>

NextR == RGet \/ RAdd \/ RRead \/ RWrite \/ RStore \/ RRemove

\* two session tasks, each making one call on the shared PiecesManager
SpecRace == InitR /\ [][NextR]_vars

(***************************************************************************)
(* map_files_to_pieces.  A TorrentInfoFile is [path, length]; pieces_count *)
(* is not read by the function.                                            *)
(***************************************************************************)
PieceSlice(piece_index, offset, length) ==
    [piece_index |-> piece_index, offset |-> offset, length |-> length]

\* the inner loop, while current_file_size > 0, for one file: the slices
\* appended and the piece index and offset it leaves
RECURSIVE FileSlices(_, _, _, _, _)
FileSlices(current_file_size, current_piece_index, current_piece_offset, piece_length, slices) ==
    IF current_file_size > 0
    THEN LET current_piece_length == piece_length - current_piece_offset IN
         IF current_file_size < current_piece_length
         THEN FileSlices(0, current_piece_index,
                         current_piece_offset + current_file_size, piece_length,
                         Append(slices,
                                PieceSlice(current_piece_index, current_piece_offset,
                                           current_piece_offset + current_file_size)))
         ELSE FileSlices(current_file_size - current_piece_length,
                         current_piece_index + 1, 0, piece_length,
                         Append(slices,
                                PieceSlice(current_piece_index, current_piece_offset,
                                           piece_length)))
    ELSE [slices |-> slices, index |-> current_piece_index,
          offset |-> current_piece_offset]

\* the outer loop, while _files: pieces_to_files_mapping
RECURSIVE PiecesToFilesMapping(_, _, _, _)
PiecesToFilesMapping(files, current_piece_index, current_piece_offset, piece_length) ==
    IF files = << >> THEN << >>
    ELSE LET f == FileSlices(Head(files).length, current_piece_index,
                             current_piece_offset, piece_length, << >>)
         IN  << f.slices >>
                \o PiecesToFilesMapping(Tail(files), f.index, f.offset, piece_length)

map_files_to_pieces(files, pieces_count, piece_length) ==
    LET mapping == PiecesToFilesMapping(files, 0, 0, piece_length) IN
    [k \in 1..Len(files) |->
        [path |-> files[k].path, length |-> files[k].length, pieces |-> mapping[k]]]

\* the files of a torrent: up to MaxFiles files of 0 to MaxFileLength bytes
FileLists ==
    UNION { [1..n -> 0..MaxFileLength] : n \in 1..MaxFiles }

TorrentInfoFiles(lengths) ==
    [k \in 1..Len(lengths) |-> [path |-> k, length |-> lengths[k]]]

RECURSIVE SumLengths(_)
SumLengths(s) == IF s = << >> THEN 0 ELSE Head(s).length + SumLengths(Tail(s))

\* the number of pieces of piece_length bytes that hold the files
PiecesCount(files, piece_length) ==
    (SumLengths(files) + piece_length - 1) \div piece_length

FMapFiles ==
    /\ \E lengths \in FileLists, piece_length \in 1..MaxPieceLength :
        \E files \in { TorrentInfoFiles(lengths) } :
         lastB' = [op |-> "map", n |-> 1, files |-> files,
                   piece_length |-> piece_length,
                   ret |-> map_files_to_pieces(files, PiecesCount(files, piece_length),
                                               piece_length)]
    /\ UNCHANGED << connVars, cliVars, sessVars, mgrVars, pieceVars, trkVars, raceVars, enc >>

InitF ==
    /\ InitConn
    /\ InitIdle
    /\ InitPieceIdle
    /\ InitTrkIdle
    /\ InitBenIdle
    /\ InitRaceIdle
    /\ peers = << >>

NextF == FMapFiles

SpecMap == InitF /\ [][NextF]_vars

(***************************************************************************)
(* Properties.                                                             *)
(***************************************************************************)
\* C1: handshake() on a connection that is already handshaked raises
\* ProtocolError, sends nothing, reads nothing and leaves handshaked true;
\* so at most one handshake() call ever returns on a connection.
C1_HandshakeOnce ==
    /\ (last.op = "handshake" /\ last.pre) =>
          /\ last.st = "exc"
          /\ last.exc = "ProtocolError"
          /\ last.nsent = 0
          /\ last.nread = 0
          /\ handshaked
    /\ hsCount <= 1

\* a second handshake() was tried after one had succeeded, with the
\* peer's bytes waiting on the wire
C1_Witness ==
    /\ last.op = "handshake"
    /\ last.pre
    /\ hsCount = 1
    /\ wire # << >>

\* C2: no message is read before the handshake has succeeded: receive()
\* on a connection that is not handshaked raises ProtocolError and reads no
\* byte, and no P2PReadMessageStream is made over such a connection.
C2_NoReadBeforeHandshake ==
    /\ ~handshaked => msgsRead = 0 /\ ~stream
    /\ (last.op = "receive" /\ ~last.pre) =>
          /\ last.st = "exc"
          /\ last.exc = "ProtocolError"
          /\ last.nread = 0
    /\ (last.op = "stream" /\ ~last.pre) =>
          /\ last.st = "exc"
          /\ last.exc = "ValueError"

\* receive() was refused while bytes of the peer were there to be read
C2_Witness ==
    /\ last.op = "receive"
    /\ ~last.pre
    /\ last.exc = "ProtocolError"
    /\ wire # << >>
    /\ sock = "connected"

\* C9: once availability[p][i] is true it stays true under every later
\* update_peer_with_bitfield and update_peer_with_have_message call, until
\* remove_peer(p) drops the entry of p.
\* A Have for a piece already recorded for the peer changes nothing.
C9_AvailabilityMonotone ==
    [][ /\ \A p \in Peers, i \in 0..15 :
            (Available(peers, p, i) /\ p \in DOMAIN peers') => Available(peers', p, i)
        /\ ( /\ nops' = nops + 1
             /\ lastOp'.op = "have"
             /\ Available(peers, lastOp'.peer, lastOp'.arg.piece_index) ) =>
                peers' = peers ]_vars

\* a BitField whose bit i is clear was applied to a peer recorded as
\* having piece i, and the piece is still recorded
C9_Witness ==
    /\ lastOp.op = "bitfield"
    /\ \E i \in 0..7 :
         /\ ~lastOp.arg.bit_field_lookup[i + 1]
         /\ Available(peers, lastOp.peer, i)

\* a well-formed 68-byte handshake frame of the remote peer
RemoteHandshake(info_hash) == Encode(MkHandshake(info_hash, RemoteId))

\* the last call was handshake(h) on a connected, not handshaked
\* connection on which exactly the frame `reply` had arrived
HandshakeAnswered(reply) ==
    /\ last.op = "handshake"
    /\ ~last.pre
    /\ last.up
    /\ last.avail = reply

\* C3: answered with a well-formed 68-byte handshake frame carrying the
\* info-hash that was sent, handshake() returns the remote handshake and
\* sets handshaked.
C3_HandshakeSucceeds ==
    (last.op = "handshake" /\ HandshakeAnswered(RemoteHandshake(last.arg.info_hash))) =>
        /\ last.st = "ret"
        /\ last.ret = MkHandshake(last.arg.info_hash, RemoteId)
        /\ handshaked

\* C4: answered with a handshake frame carrying another info-hash,
\* handshake() raises ProtocolError and handshaked stays false.
C4_MismatchIsProtocolError ==
    \A other \in { H1, H2 } :
        ( /\ last.op = "handshake"
          /\ other # last.arg.info_hash
          /\ HandshakeAnswered(RemoteHandshake(other)) ) =>
            /\ last.st = "exc"
            /\ last.exc = "ProtocolError"
            /\ ~handshaked

\* C5: before the handshake has succeeded the session is not interested
\* and has sent nothing but the handshake; once it reads (or tries to read)
\* a frame it has sent Interested right after the handshake and is
\* interested.
C5_InterestedBeforeReading ==
    /\ ~handshaked =>
          /\ ~InList("interested", this_peer_state)
          /\ Len(sent) <= 1
          /\ \A k \in 1..Len(sent) : sent[k] = Encode(MkHandshake(TorrentInfoHash, PeerId))
    /\ (pc \in { "loop", "hung" } \/ msgsRead > 0 \/ last.op = "next") =>
          /\ Len(sent) >= 2
          /\ sent[2] = Encode(MkPlain(Interested))
          /\ InList("interested", this_peer_state)

\* the session has read a frame of the peer
C5_Witness == msgsRead > 0 /\ nproc > 0 /\ pc = "loop"

\* C6: after a frame has been processed the flags are those of the frame
\* table, whatever frames came before it: Choke - choked, Unchoke - not
\* choked, Interested - peer interested, NotInterested - peer not interested.
C6_FlagsFollowLastFrame ==
    (nproc > 0 /\ pc = "loop") =>
        /\ lastFrame.id = Choke => InList("choked", this_peer_state)
        /\ lastFrame.id = Unchoke => ~InList("choked", this_peer_state)
        /\ lastFrame.id = Interested => InList("interested", remote_peer_state)
        /\ lastFrame.id = NotInterested => ~InList("interested", remote_peer_state)

\* C7: a request recorded as outstanding is a Request frame that was
\* sent, and once a block has arrived no request is outstanding.
C7_RequestSentAndCleared ==
    /\ InList("pending request", this_peer_state) =>
          \E k \in 1..Len(sent) : IsRequestFrame(sent[k])
    /\ (nproc > 0 /\ pc = "loop" /\ lastFrame.id = Piece) =>
          ~InList("pending request", this_peer_state)

\* C8: after a Have(i) frame of the peer has been processed the
\* coordinator records availability[peer][i] and the session reads on.
C8_HaveRecorded ==
    (nproc > 0 /\ lastFrame.id = Have) =>
        /\ Available(peers, P1, lastFrame.piece_index)
        /\ pc \in { "loop", "hung", "returned" }

\* C10: when communicate() has ended, by returning or by raising, the
\* peer is out of the availability map and the socket is closed.
C10_CleanupOnEveryExit ==
    pc \in { "returned", "raised" } => (P1 \notin DOMAIN peers /\ sock = "closed")

\* C11: a failure of the session ends only this session: communicate()
\* never lets an exception through to its caller, and no step of it changes
\* the availability entry of another peer.
C11_SessionFailureIsolated ==
    [][ /\ raised' = "none"
        /\ \A p \in Peers \ {P1} :
             /\ (p \in DOMAIN peers') = (p \in DOMAIN peers)
             /\ PeersGet(peers', p) = PeersGet(peers, p) ]_vars

\* the block at position k was handed out for peer p and is still awaited
AssignedTo(bs, ow, k, p) ==
    /\ bs[k].status = Pending
    /\ bs[k].offset \in DOMAIN ow
    /\ ow[bs[k].offset] = p

\* C12: when the session of a peer is cancelled, every block that was
\* Pending for that peer is Missing again with no other change to it;
\* every other block is unchanged.
C12_PendingResetOnDisconnect ==
    lastP.op = "cancel" =>
        /\ Len(blocks) = Len(lastP.pre)
        /\ \A k \in 1..Len(lastP.pre) :
             IF AssignedTo(lastP.pre, owner, k, lastP.peer)
             THEN blocks[k] = [lastP.pre[k] EXCEPT !.status = Missing]
             ELSE blocks[k] = lastP.pre[k]

\* the positions of the Missing blocks
MissingAt(bs) == { k \in 1..Len(bs) : bs[k].status = Missing }

\* the first position of a non-empty set of positions
First(ks) == CHOOSE j \in ks : \A i \in ks : j <= i

\* C13: next_block_for_request() returns the first Missing block in block
\* order, now Pending, and changes nothing else; it returns None, and
\* changes nothing, exactly when no block is Missing.
C13_NextBlockFirstMissing ==
    lastP.op = "next_block_for_request" =>
        LET pre == lastP.pre IN
        /\ (lastP.ret = None) = (MissingAt(pre) = {})
        /\ MissingAt(pre) = {} => blocks = pre
        /\ MissingAt(pre) # {} =>
             /\ lastP.ret = [pre[First(MissingAt(pre))] EXCEPT !.status = Pending]
             /\ blocks = [pre EXCEPT ![First(MissingAt(pre))].status = Pending]

\* the first block in block order was not Missing and a later one was
\* handed out
C13_Witness ==
    /\ lastP.op = "next_block_for_request"
    /\ lastP.pre[1].status # Missing
    /\ lastP.ret # None
    /\ blocks[2].status = Pending
    /\ lastP.pre[2].status = Missing

\* C14: add_block(offset, data) for a known offset stores the data and
\* sets Retreived only when the block is Pending; a Missing or Retreived
\* block keeps its status and data.
C14_DeliverOnlyPending ==
    (lastP.op = "add_block" /\ OffsetKnown(lastP.pre, lastP.offset)) =>
        \A k \in 1..Len(lastP.pre) :
            IF lastP.pre[k].offset = lastP.offset /\ lastP.pre[k].status = Pending
            THEN blocks[k] = [lastP.pre[k] EXCEPT !.status = Retreived,
                                                  !.data = lastP.data]
            ELSE blocks[k] = lastP.pre[k]

\* C15: add_block(offset, data) with an offset of no block of the piece
\* raises nothing and changes no block.
C15_UnknownOffsetDropped ==
    ( /\ lastP.op = "add_block"
      /\ \A k \in 1..Len(lastP.pre) : lastP.pre[k].offset # lastP.offset ) =>
        /\ lastP.exc = "none"
        /\ blocks = lastP.pre

\* a block came for an offset beyond the piece while a block was awaited
\* and another already there
C15_Witness ==
    /\ lastP.op = "add_block"
    /\ \A k \in 1..Len(lastP.pre) : lastP.pre[k].offset # lastP.offset
    /\ \E k \in 1..Len(blocks) : blocks[k].status = Pending
    /\ \E k \in 1..Len(blocks) : blocks[k].status = Retreived

\* C16: verifying a complete piece whose content does not hash to the
\* expected digest leaves every block Missing with empty data; verifying
\* one that matches leaves every block Retreived with its data.
C16_MismatchResets ==
    (lastP.op = "verify" /\ is_complete(lastP.pre)) =>
        IF is_hash_matching(lastP.pre, ThePiece.hash)
        THEN blocks = lastP.pre /\ is_complete(blocks)
        ELSE \A k \in 1..Len(blocks) :
                blocks[k].status = Missing /\ blocks[k].data = << >>

\* C17: once the piece was found complete with a matching hash, no call
\* changes the status or the data of any block.
C17_VerifiedIsFinal ==
    [][ verified => (verified' /\ blocks' = blocks) ]_vars

\* C18: a Retreived block gets another status only by reset(), which
\* leaves every block of the piece Missing.
C18_RetreivedUntilReset ==
    [][ \A k \in 1..Len(blocks) :
          (blocks[k].status = Retreived /\ blocks'[k].status # Retreived) =>
              /\ lastP'.op = "reset"
              /\ \A j \in 1..Len(blocks') : blocks'[j].status = Missing ]_vars

\* reset() was called on a piece with a Retreived and a Pending block
C18_Witness ==
    /\ lastP.op = "reset"
    /\ \E k \in 1..Len(lastP.pre) : lastP.pre[k].status = Retreived
    /\ \E k \in 1..Len(lastP.pre) : lastP.pre[k].status = Pending
    /\ \A k \in 1..Len(blocks) : blocks[k].status = Missing

\* C19: asked for work for a peer, the coordinator returns the first
\* Missing block of the first piece the peer has, now Pending; it returns
\* None and changes nothing when the peer has no piece with a Missing block.
C19_BlockAssignment ==
    lastP.op = "_request_piece" =>
        IF Available(peers, lastP.peer, ThePiece.index) /\ MissingAt(lastP.pre) # {}
        THEN /\ lastP.ret = [lastP.pre[First(MissingAt(lastP.pre))] EXCEPT
                                !.status = Pending]
             /\ blocks = [lastP.pre EXCEPT ![First(MissingAt(lastP.pre))].status = Pending]
        ELSE /\ lastP.ret = None
             /\ blocks = lastP.pre

\* C20: once the session reads frames of a peer that is recorded as
\* having every piece and has unchoked it, and the peer serves and does not
\* drop, every block is eventually Retreived and the piece matches its hash.
C20_EventuallyAllVerified ==
    ( /\ pc = "loop"
      /\ Available(peers, P1, ThePiece.index)
      /\ ~InList("choked", this_peer_state) )
        ~> (is_complete(blocks) /\ is_hash_matching(blocks, ThePiece.hash))

\* a < b for two byte-strings, byte by byte
BytesLess(a, b) ==
    \/ Len(a) < Len(b) /\ \A k \in 1..Len(a) : a[k] = b[k]
    \/ \E k \in 1..Min(Len(a), Len(b)) :
         /\ a[k] < b[k]
         /\ \A j \in 1..(k - 1) : a[j] = b[j]

\* the keys of the pairs are byte-strings in ascending order
KeysAscending(pairs) ==
    \A k \in 1..(Len(pairs) - 1) :
        /\ pairs[k][1].t = "bytes"
        /\ pairs[k + 1][1].t = "bytes"
        /\ BytesLess(pairs[k][1].v, pairs[k + 1][1].v)

\* two values equal up to the order of the keys of their dictionaries
RECURSIVE SameUpToOrder(_, _)
SameUpToOrder(a, b) ==
    /\ a.t = b.t
    /\ CASE a.t = "list" ->
              /\ Len(a.v) = Len(b.v)
              /\ \A k \in 1..Len(a.v) : SameUpToOrder(a.v[k], b.v[k])
         [] a.t = "dict" ->
              /\ Len(a.v) = Len(b.v)
              /\ \A k \in 1..Len(a.v) : \E j \in 1..Len(b.v) :
                    /\ KeyEq(a.v[k][1], b.v[j][1])
                    /\ SameUpToOrder(a.v[k][2], b.v[j][2])
         [] OTHER -> a.v = b.v

\* C26: for every value V built from integers, byte-strings, lists and
\* dictionaries keyed by byte-strings, decoding the encoding of V gives V
\* up to dictionary key order, and encoding that again gives the same bytes.
C26_RoundTrip ==
    lastB.op = "roundtrip" =>
        /\ lastB.d.st = "ok"
        /\ SameUpToOrder(lastB.d.val, lastB.value)
        /\ lastB.e2 = lastB.e1

\* the round trip of a dictionary with a negative integer, byte-strings of
\* several lengths, a list and a dictionary with keys out of order inside
C26_Witness ==
    /\ lastB.op = "roundtrip"
    /\ lastB.e1 = Bencode(VNested)
    /\ lastB.d.st = "ok"

\* C27: encode emits a dictionary with its keys in ascending raw-byte
\* order whatever the insertion order, so two dictionaries with the same
\* pairs encode to the same bytes and two metainfo files with the same
\* pairs have the same info-hash.
C27_DictKeysAscending ==
    /\ lastB.op = "roundtrip" /\ lastB.value.t = "dict" =>
          /\ lastB.d.st = "ok"
          /\ KeysAscending(lastB.d.val.v)
          /\ \A k \in 1..Len(EncodeInputs) :
                SameUpToOrder(EncodeInputs[k], lastB.value)
                    => Bencode(EncodeInputs[k]) = lastB.e1
    /\ lastB.op = "from_torrent_file" /\ lastB.res.exc = "none" =>
          \A k \in 1..Len(TorrentInputs) :
              SameUpToOrder(TorrentInputs[k].meta, lastB.meta)
                  => from_torrent_file(TorrentInputs[k].file).info_hash
                        = lastB.res.info_hash

\* C28: encode(v) returns exactly the bencoding of v, also when the same
\* encoder has encoded another value before.
C28_EncodeDependsOnValueOnly ==
    lastB.op = "encode" /\ lastB.exc = "none" => lastB.ret = Bencode(lastB.value)

\* the file is i<body>e, no e in the body
IntFile(data) ==
    /\ Len(data) >= 2
    /\ data[1] = Ch.i
    /\ data[Len(data)] = Ch.e
    /\ \A k \in 2..(Len(data) - 1) : data[k] # Ch.e

\* the digits of a body after its optional '-'
Unsigned(body) == IF body # << >> /\ Head(body) = Ch.minus THEN Tail(body) ELSE body

AllDigits(b) == b # << >> /\ \A k \in 1..Len(b) : IsDigit(b[k])

\* 0, or digits not starting with 0 after an optional '-'
MinimalInt(body) ==
    \/ body = << Ch.zero >>
    \/ AllDigits(Unsigned(body)) /\ Head(Unsigned(body)) # Ch.zero

\* -0, or digits starting with a 0 that is not alone
NegZeroOrLeadingZero(body) ==
    \/ body = << Ch.minus, Ch.zero >>
    \/ /\ AllDigits(Unsigned(body))
       /\ Len(Unsigned(body)) > 1
       /\ Head(Unsigned(body)) = Ch.zero

\* C29: decoding an integer accepts i0e and the minimal decimal forms
\* with an optional leading '-', and fails with BencodeDecodeError on a
\* negative zero and on a leading zero.
C29_IntegerForms ==
    lastB.op = "decode" /\ IntFile(lastB.data) =>
        LET body == SubSeq(lastB.data, 2, Len(lastB.data) - 1) IN
        /\ MinimalInt(body) =>
              /\ lastB.res.st = "ok"
              /\ lastB.res.val.t = "int"
              /\ IntToAscii(lastB.res.val.v) = body
        /\ NegZeroOrLeadingZero(body) =>
              /\ lastB.res.st = "exc"
              /\ lastB.res.exc = "BencodeDecodeError"

\* the pieces string of a metainfo value that has one
PiecesOf(meta) == GetItem(GetItem(meta, Key.info).val, Key.pieces).val.v

HasPieces(meta) ==
    /\ GetItem(meta, Key.info).exc = "none"
    /\ GetItem(GetItem(meta, Key.info).val, Key.pieces).exc = "none"

\* C30: a pieces string of 20 * n bytes gives n digests of 20 bytes,
\* digest k being bytes [20k, 20k+20) of the string; a pieces string whose
\* length is not a multiple of 20 is rejected.
C30_PiecesSplit ==
    ( /\ lastB.op = "from_torrent_file"
      /\ lastB.file = Bencode(lastB.meta)
      /\ HasPieces(lastB.meta) ) =>
        IF Len(PiecesOf(lastB.meta)) % 20 = 0
        THEN /\ lastB.res.exc = "none"
             /\ lastB.res.info.pieces =
                    [k \in 1..(Len(PiecesOf(lastB.meta)) \div 20) |->
                        SubSeq(PiecesOf(lastB.meta), 20 * (k - 1) + 1, 20 * k)]
        ELSE lastB.res.exc # "none"

\* tracker k was sent a request in the last call of get_remote_peers
Queried(k) == \E j \in 1..Len(lastG.requests) : lastG.requests[j].index = k

\* the peers the trackers returned, in the order of the trackers
RECURSIVE AllReturned(_)
AllReturned(fetched) ==
    IF fetched = << >> THEN << >>
    ELSE Head(fetched).returned \o AllReturned(Tail(fetched))

\* C21: in get_remote_peers a tracker is queried if and only if it was
\* never visited or now >= last_visited + interval; at equality it is
\* queried.
C21_QueriedIffDue ==
    lastG.op = "get_remote_peers" =>
        \A j \in 1..Len(lastG.reached) :
            LET k == lastG.reached[j]
                entry == lastG.pre[k]
            IN  Queried(k) <=>
                    \/ entry.last_visited = << >>
                    \/ lastG.now >= entry.last_visited[1] + IntervalOr0(entry.tracker)

\* C22: get_remote_peers returns the peers returned by every tracker that
\* was queried successfully, each tracker's peers once; the result is
\* non-empty when some tracker returned a peer.
C22_ReturnsFetchedPeers ==
    lastG.op = "get_remote_peers" /\ lastG.exc = "none" =>
        lastG.ret = AllReturned(lastG.fetched)

\* C23: a failed announce to one tracker does not stop get_remote_peers:
\* it returns normally and has queried every tracker that was never
\* visited or whose interval has passed.
C23_TrackerFailureIsolated ==
    lastG.op = "get_remote_peers" =>
        /\ lastG.exc = "none"
        /\ \A k \in 1..Len(lastG.pre) :
              ( \/ lastG.pre[k].last_visited = << >>
                \/ lastG.now > lastG.pre[k].last_visited[1]
                                  + IntervalOr0(lastG.pre[k].tracker) )
                  => Queried(k)

\* C24: the request of a tracker client carries event=started on its
\* first announce and on no later one.
C24_StartedOnlyFirst ==
    lastG.op = "get_available_peers" =>
        (lastG.request.event <=> lastG.pre.nann = 0)

\* C25: the request carries the tracker id a response supplied last,
\* also when a later response omitted it, and no tracker id before any
\* was supplied.
C25_TrackerIdEchoed ==
    lastG.op = "get_available_peers" =>
        lastG.request.trackerid = lastG.pre.supplied

\* C31: for every message M among KeepAlive, Choke, Unchoke, Interested,
\* NotInterested, Have, BitField, Request, Piece, Cancel and Port, decoding
\* the bytes of M.encode() gives a message of the same type with the same
\* field values, and the length prefix emitted is the number of body bytes
\* that follow it.
C31_FrameRoundTrip ==
    lastB.op = "frame" =>
        /\ lastB.d.exc = "none"
        /\ lastB.d.msg = lastB.msg
        /\ UnpackU32(Take(lastB.bytes, 4)) = Len(lastB.bytes) - 4

\* a Port frame of length 3: the id 9 and the port 6881 as a uint16
PortFrame == PackU32(3) \o << Port, 26, 225 >>

\* C32: a Port frame received from the peer (length 3: id 9 and a uint16
\* port) is ignored: the choke and interest flags of both sides and the
\* availability map are unchanged, and the session goes on reading frames.
C32_PortIgnored ==
    [][ (pc = "loop" /\ wire = PortFrame /\ link' = link /\ wire' = << >>) =>
           /\ pc' = "loop"
           /\ InList("choked", this_peer_state') = InList("choked", this_peer_state)
           /\ InList("interested", this_peer_state')
                 = InList("interested", this_peer_state)
           /\ InList("interested", remote_peer_state')
                 = InList("interested", remote_peer_state)
           /\ peers' = peers ]_vars

\* the well-formed frames the peer of the model sends, as messages
FramedMessages ==
    { MkPlain(Choke), MkPlain(Unchoke), MkPlain(Interested), MkPlain(NotInterested),
      MkPlain(KeepAlive), MkHave(1), MkHave(9), MkBitField(<<129>>),
      MkBitField(<<64>>), MkRequest(0, 0, 16384), MkCancel(0, 0, 16384),
      MkPiece(0, 0, <<1, 2>>) }

\* C33: receive() returns the message of a frame however the frame's
\* bytes are split across socket reads, and consumes exactly the 4 + length
\* bytes of the frame.
C33_SplitReadsSameMessage ==
    \A m \in FramedMessages :
        (last.op = "receive" /\ last.pre /\ last.up /\ last.avail = Encode(m)) =>
            /\ last.st = "ret"
            /\ last.ret = m
            /\ last.nread = Len(Encode(m))

\* what has arrived of a frame when the peer closed before finishing it:
\* nothing, a part of the length prefix, the prefix and a part of the body
CutFrames == { << >>, << 0, 0 >>, Take(Encode(MkHave(1)), 6) }

\* C34: when the peer has closed the connection before the length prefix
\* or the body of a frame arrived, receive() ends with ProtocolError; it
\* does not loop forever.
C34_ClosedEndsReceive ==
    (last.op = "receive" /\ last.pre /\ last.up /\ last.avail \in CutFrames) =>
        /\ last.st = "exc"
        /\ last.exc = "ProtocolError"

\* inputs that end in the middle of a value: i12 (no closing e), 52 (a
\* length without its colon), li1e and d1:a (not closed), d1:ai1 (a
\* dictionary that ends inside an integer)
CutValues ==
    { << 105, 49, 50 >>, << 53, 50 >>, << 108, 105, 49, 101 >>,
      << 100, 49, 58, 97 >>, << 100, 49, 58, 97, 105, 49 >> }

\* C35: decode() terminates on every finite input; on an input that ends
\* in the middle of a value it raises BencodeDecodeError.
C35_DecodeTerminates ==
    lastB.op = "decode" =>
        /\ lastB.res.st # "hang"
        /\ lastB.data \in CutValues =>
              (lastB.res.st = "exc" /\ lastB.res.exc = "BencodeDecodeError")

\* the availability map, and the maps the two calls give when one runs
\* after the other
RaceResult == PeersOf(heap, refs)

SerialResults ==
    { RunCall(RunCall(started, tasks[1].call), tasks[2].call),
      RunCall(RunCall(started, tasks[2].call), tasks[1].call) }

\* C36: the coordinator's availability updates are serialized: whatever
\* the interleaving of concurrent update_peer_with_have_message,
\* update_peer_with_bitfield and remove_peer calls of different session
\* tasks, the availability map they leave is the one of running the calls
\* one after another in some order.
C36_UpdatesSerialized ==
    (tasks # << >> /\ \A t \in DOMAIN tasks : tasks[t].pc = "done") =>
        RaceResult \in SerialResults

\* C37: in the result of map_files_to_pieces the length of every slice is
\* the number of bytes of the file that lie in that piece: offset + length
\* <= piece_length for every slice, and the lengths of the slices of a file
\* sum to the file's length, for any file lengths and any piece_length > 0.
C37_SliceLengths ==
    lastB.op = "map" =>
        \A k \in 1..Len(lastB.ret) :
            /\ \A j \in 1..Len(lastB.ret[k].pieces) :
                  lastB.ret[k].pieces[j].offset + lastB.ret[k].pieces[j].length
                      <= lastB.piece_length
            /\ SumLengths(lastB.ret[k].pieces) = lastB.ret[k].length

\* the step in which the loop appends 'pending request' and calls
\* _request_piece()
RequestTriggered ==
    /\ ~InList("pending request", this_peer_state)
    /\ InList("pending request", this_peer_state')

\* C38: the session triggers a block request only when it is interested
\* and not choked: the frame it has just handled is then an Unchoke, so the
\* last choke-related frame it received is not a Choke and an Unchoke has
\* arrived since the handshake.
C38_RequestOnlyWhenUnchoked ==
    [][ RequestTriggered =>
          /\ InList("interested", this_peer_state')
          /\ ~InList("choked", this_peer_state')
          /\ nproc' = nproc + 1
          /\ lastFrame'.id = Unchoke ]_vars

\* a request was triggered by an Unchoke that was not the first frame read
C38_Witness ==
    /\ InList("pending request", this_peer_state)
    /\ lastFrame.id = Unchoke
    /\ nproc >= 2
    /\ pc = "loop"

\* C39: between two resets of a piece next_block_for_request never hands
\* out the same block twice and never hands out a Pending or Retreived
\* block, whatever the order of next_block_for_request and add_block calls:
\* the block handed out is Missing before the call and Pending after it, and
\* no call but reset() makes a block Missing that was not.
C39_NoBlockHandedOutTwice ==
    [][ /\ (pnops' = pnops + 1 /\ lastP'.op = "next_block_for_request"
               /\ lastP'.ret # None) =>
               \E k \in 1..Len(blocks) :
                   /\ blocks[k].offset = lastP'.ret.offset
                   /\ blocks[k].status = Missing
                   /\ blocks'[k].status = Pending
        /\ (pnops' = pnops + 1 /\ lastP'.op # "reset") =>
               \A k \in 1..Len(blocks) :
                   blocks[k].status # Missing => blocks'[k].status # Missing ]_vars

\* the second block was handed out while the first, handed out before it,
\* was still awaited
C39_Witness ==
    /\ lastP.op = "next_block_for_request"
    /\ lastP.ret # None
    /\ \E k \in 1..Len(lastP.pre) :
          lastP.pre[k].status = Pending /\ blocks[k].status = Pending
    /\ \A k \in 1..Len(blocks) : blocks[k].status = Pending

\* the data of the Retreived blocks, in offset order
RECURSIVE DeliveredData(_)
DeliveredData(bs) ==
    IF bs = << >> THEN << >>
    ELSE (IF Head(bs).status = Retreived THEN Head(bs).data ELSE << >>)
            \o DeliveredData(Tail(bs))

\* C40: for a piece built from blocks in their initial state, in every
\* state reached by next_block_for_request, add_block and reset a Missing or
\* Pending block has empty data; only Retreived blocks carry data, so the
\* content of the piece is the data of the delivered blocks.
C40_OnlyRetreivedCarryData ==
    /\ \A k \in 1..Len(blocks) :
          blocks[k].status \in { Missing, Pending } => blocks[k].data = << >>
    /\ content(blocks) = DeliveredData(SortedByOffset(blocks))

\* a block that was awaited has been delivered while another is awaited
\* with no data
C40_Witness ==
    /\ lastP.op = "add_block"
    /\ \E k \in 1..Len(lastP.pre) :
          /\ lastP.pre[k].status = Pending
          /\ blocks[k].status = Retreived
          /\ blocks[k].data # << >>
    /\ \E k \in 1..Len(blocks) : blocks[k].status = Pending /\ blocks[k].data = << >>
    /\ content(blocks) # << >>
    /\ pnops >= 4

=============================================================================
